---- MODULE Spec2Model ----
(***************************************************************************)
(* myio-mcp: the adapter between the MCP tool catalog and the myIO         *)
(* controller's HTTP API.                                                  *)
(*                                                                         *)
(* The adapter is stateless: every operation fetches one snapshot or sends *)
(* one command.  The state of the model is the footprint of the last       *)
(* operation: which build and method ran (call), the snapshot document the *)
(* controller served (snapshot), the requests put on the wire (sent), what *)
(* the API method returned or threw (ret) and what the tool handler gave   *)
(* back to the caller (reply).                                             *)
(*                                                                         *)
(* Builds of the API client found in the source:                           *)
(*   "api"     src/src/api.ts              axios, readings carry raw       *)
(*   "part001" src/unnamed/part_001:107+   axios, readings without raw     *)
(*   "fetch"   src/unnamed/part_001:1-105  fetch, /api/... endpoints       *)
(*   "part000" src/unnamed/part_000        curl, one snapshot per status   *)
(*                                                                         *)
(* Spec runs one operation at a time.  SpecOverlap lets handlers of        *)
(* index.ts overlap on one client instance while the controller changes;   *)
(* SpecToggle lets the read-then-write toggles of tools/relay.ts overlap.  *)
(*                                                                         *)
(* Conventions.  An optional JSON field is <<>> when undefined and <<v>>   *)
(* when defined.  Text that goes through encodeURIComponent is a sequence  *)
(* of one-character strings; other text is a TLA+ string.  Strings are     *)
(* ASCII: the degree sign of the unit of temperature is written "deg".     *)
(* A JavaScript number x/100 is kept exactly, as sign, whole part and      *)
(* hundredths.                                                             *)
(***************************************************************************)
EXTENDS Integers, Sequences, FiniteSets, TLC

VARIABLES call, snapshot, sent, answered, ret, reply,
          instance, controller, tasks, log

vars == <<call, snapshot, sent, answered, ret, reply, instance, controller, tasks, log>>

\* ------------------------------------------------------------------------
\* Optional values and small helpers
\* ------------------------------------------------------------------------

None == <<>>

Some(v) == <<v>>

Abs(n) == IF n < 0 THEN -n ELSE n

\* x / 100 of a JavaScript integer x, kept exactly.
Hundredth(x) ==
    [neg |-> x < 0, whole |-> Abs(x) \div 100, cent |-> Abs(x) % 100]

\* The integer a decoded value stands for, times 100.
TimesHundred(v) ==
    (IF v.neg THEN -1 ELSE 1) * (v.whole * 100 + v.cent)

\* ------------------------------------------------------------------------
\* Text: numbers in template literals, parseInt, encodeURIComponent
\* ------------------------------------------------------------------------

DigitChars == <<"0", "1", "2", "3", "4", "5", "6", "7", "8", "9">>

RECURSIVE NatChars(_)
NatChars(n) ==
    IF n < 10 THEN <<DigitChars[n + 1]>>
    ELSE NatChars(n \div 10) \o <<DigitChars[(n % 10) + 1]>>

\* `${n}` of an integer n, as characters.
NumChars(n) == IF n < 0 THEN <<"-">> \o NatChars(-n) ELSE NatChars(n)

DigitVal(c) == CHOOSE d \in 0..9 : DigitChars[d + 1] = c

IsDigit(c) == \E d \in 0..9 : DigitChars[d + 1] = c

\* parseInt(key) of a key made of decimal digits.
RECURSIVE ParseDigits(_, _)
ParseDigits(cs, acc) ==
    IF cs = <<>> \/ ~IsDigit(Head(cs)) THEN acc
    ELSE ParseDigits(Tail(cs), acc * 10 + DigitVal(Head(cs)))

parseInt(cs) == ParseDigits(cs, 0)

\* Characters to a TLA+ string.
RECURSIVE Flat(_)
Flat(cs) == IF cs = <<>> THEN "" ELSE Head(cs) \o Flat(Tail(cs))

\* a ?? b
Coalesce(opt, dflt) == IF opt # None THEN opt[1] ELSE dflt

\* x.toFixed(2) of a decoded value.
ToFixed2(v) ==
    (IF v.neg THEN "-" ELSE "") \o ToString(v.whole) \o "."
        \o ToString(v.cent \div 10) \o ToString(v.cent % 10)

\* lines.join(sep)
RECURSIVE Join(_, _)
Join(lines, sep) ==
    IF lines = <<>> THEN ""
    ELSE IF Len(lines) = 1 THEN lines[1]
    ELSE lines[1] \o sep \o Join(Tail(lines), sep)

\* ------------------------------------------------------------------------
\* Snapshot documents served by the controller (SensOutData)
\* ------------------------------------------------------------------------

\* The six value fields of a RawSensor, in the order of the interface.
SensorFields == <<"temp", "hum", "imp", "P", "U", "I">>

\* A sample non-zero raw value per field (hundredths of the unit).
SampleRaw ==
    [temp |-> -150, hum |-> 4550, imp |-> 123456, P |-> 230, U |-> 23050, I |-> 1234]

\* Most entries a family holds in the snapshots that combine several entries.
MaxSensors == 2

OptRaw(f) == {None, Some(0), Some(SampleRaw[f])}

\* Every RawSensor: each field undefined, 0 or its sample value; the id and
\* the description present or not.
RawSensors ==
    [id : {None, Some(7)}, description : {None, Some("Kitchen")},
     temp : OptRaw("temp"), hum : OptRaw("hum"), imp : OptRaw("imp"),
     P : OptRaw("P"), U : OptRaw("U"), I : OptRaw("I")]

NoFields ==
    [id |-> Some(7), description |-> Some("Kitchen"),
     temp |-> None, hum |-> None, imp |-> None, P |-> None, U |-> None, I |-> None]

\* RawSensors with at most one value field, the id and the description given.
PlainSensors ==
    {NoFields} \cup
    {[NoFields EXCEPT ![SensorFields[i]] = Some(SampleRaw[SensorFields[i]])] :
        i \in 1..Len(SensorFields)}

\* A family as Object.entries lists it: integer keys ascending.
Family(recs) == [i \in 1..Len(recs) |-> [key |-> NumChars(i), val |-> recs[i]]]

EmptyDoc ==
    [relays |-> <<>>, PCA |-> <<>>, PWM |-> <<>>, group |-> <<>>,
     joiner |-> <<>>, protection |-> <<>>, sensors |-> <<>>]

\* Snapshots of GET /sens_out.json: one sensor of any shape, or up to
\* MaxSensors plain sensors.
SensorSnapshots ==
    {[EmptyDoc EXCEPT !.sensors = Family(<<s>>)] : s \in RawSensors} \cup
    {[EmptyDoc EXCEPT !.sensors = Family(ss)] : ss \in UNION {[1..k -> PlainSensors] : k \in 0..MaxSensors}}

\* Most device entries (relays, PCA, PWM and groups together) of the
\* snapshots that combine several entries.
MaxDevices == 2

\* The largest raw level of a PCA or PWM output.
MaxLevel == 255

Descriptions == {None, Some("Lamp")}

\* RawRelay: the state 0 or 1, another number, or missing.
RawRelays == [id : {0}, description : Descriptions, state : {None, Some(0), Some(1), Some(2)}]

\* RawPCA and RawPWM with a raw level among the given ones.
RawLevels(levels) == [id : {0}, description : Descriptions, state : levels]

SampleLevels == {0, 1, 128, MaxLevel}

\* RawGroup: the pull-up flag and one member, or no member.
RawGroups ==
    [id : {0}, description : Descriptions, pullUP : {0, 1}, element0 : {None, Some(1)}]

\* The ids of the entries of each family, by position: relays 1, 7, 8, ...,
\* PCA 2001, 2002, ..., PWM 101, 102, ..., groups 500, 501, ...
IdOf(family, i) ==
    CASE family = "relays" -> IF i = 1 THEN 1 ELSE 5 + i
      [] family = "PCA" -> 2000 + i
      [] family = "PWM" -> 100 + i
      [] family = "group" -> 499 + i

\* A family of devices as Object.values lists it, with the ids filled in.
FamilyFrom(family, recs) ==
    [i \in 1..Len(recs) |->
        [key |-> NumChars(i), val |-> [recs[i] EXCEPT !.id = IdOf(family, i)]]]

\* The families listDevices does not read, empty or with one entry each.
Others ==
    {[joiner |-> <<>>, protection |-> <<>>, sensors |-> <<>>],
     [joiner |-> Family(<<[element0 |-> 1, element1 |-> 2]>>),
      protection |-> Family(<<[element0 |-> 1, element1 |-> 2]>>),
      sensors |-> Family(<<[NoFields EXCEPT !.temp = Some(2150)]>>)]}

DeviceDoc(r, a, w, g, o) ==
    [relays |-> FamilyFrom("relays", r), PCA |-> FamilyFrom("PCA", a),
     PWM |-> FamilyFrom("PWM", w), group |-> FamilyFrom("group", g),
     joiner |-> o.joiner, protection |-> o.protection, sensors |-> o.sensors]

\* How many relays, PCA outputs, PWM outputs and groups a snapshot holds.
Shapes == {n \in [1..4 -> 0..MaxDevices] : n[1] + n[2] + n[3] + n[4] <= MaxDevices}

\* Snapshots of GET /d_sens_out.json with the given numbers of entries: a
\* lone PCA or PWM output at any raw level, else outputs at sample levels.
DeviceSnapshots(n) ==
    {DeviceDoc(r, a, w, g, o) :
        r \in [1..n[1] -> RawRelays],
        a \in [1..n[2] -> RawLevels(IF n = <<0, 1, 0, 0>> THEN 0..MaxLevel ELSE SampleLevels)],
        w \in [1..n[3] -> RawLevels(IF n = <<0, 0, 1, 0>> THEN 0..MaxLevel ELSE SampleLevels)],
        g \in [1..n[4] -> RawGroups],
        o \in Others}

\* The families listDevices reads.
DeviceFamilies == {"relays", "PCA", "PWM", "group"}

\* A snapshot in which the controller left a family out.
Without(doc, family) == [f \in (DOMAIN doc) \ {family} |-> doc[f]]

\* Snapshots of GET /d_sens_out.json that lack one family listDevices reads.
DeficientDeviceSnapshots ==
    {Without(DeviceDoc(<<[id |-> 0, description |-> Some("Lamp"), state |-> Some(1)]>>,
                       <<[id |-> 0, description |-> None, state |-> 128]>>,
                       <<>>, <<>>, CHOOSE o \in Others : o.sensors = <<>>),
             family) : family \in DeviceFamilies}

\* What Object.values(undefined) and Object.entries(undefined) throw.
TypeError == "Cannot convert undefined or null to object"

\* ------------------------------------------------------------------------
\* MyIOAPI.listDevices
\* ------------------------------------------------------------------------

\* Math.round(n / d) for d > 0: the nearest integer, a half rounding up.
MathRound(n, d) == (2 * n + d) \div (2 * d)

\* RelayInfo with `entry.state > 0` in place of `=== 1`.
RelayInfo_positive(entry) ==
    [id |-> entry.id,
     description |-> Coalesce(entry.description, "Relay " \o ToString(entry.id)),
     type |-> "relay",
     state |-> entry.state # None /\ entry.state[1] > 0]

RelayInfo(entry) ==
    [id |-> entry.id,
     description |-> Coalesce(entry.description, "Relay " \o ToString(entry.id)),
     type |-> "relay",
     state |-> entry.state = Some(1)]

\* PCAInfo with Math.floor in place of Math.round.
PCAInfo_floor(entry) ==
    [id |-> entry.id,
     description |-> Coalesce(entry.description, "PCA " \o ToString(entry.id)),
     type |-> "pca",
     state |-> entry.state > 0,
     levelPercent |-> (entry.state * 100) \div 255]

\* PCAInfo that takes the state from the rounded level.
PCAInfo_level(entry) ==
    [id |-> entry.id,
     description |-> Coalesce(entry.description, "PCA " \o ToString(entry.id)),
     type |-> "pca",
     state |-> MathRound(entry.state * 100, 255) > 0,
     levelPercent |-> MathRound(entry.state * 100, 255)]

PCAInfo(entry) ==
    [id |-> entry.id,
     description |-> Coalesce(entry.description, "PCA " \o ToString(entry.id)),
     type |-> "pca",
     state |-> entry.state > 0,
     levelPercent |-> MathRound(entry.state * 100, 255)]

\* PWMInfo with the default label of the PCA loop.
PWMInfo_label(entry) ==
    [id |-> entry.id,
     description |-> Coalesce(entry.description, "PCA " \o ToString(entry.id)),
     type |-> "pwm",
     state |-> entry.state > 0,
     levelPercent |-> MathRound(entry.state * 100, 255)]

PWMInfo(entry) ==
    [id |-> entry.id,
     description |-> Coalesce(entry.description, "PWM " \o ToString(entry.id)),
     type |-> "pwm",
     state |-> entry.state > 0,
     levelPercent |-> MathRound(entry.state * 100, 255)]

\* GroupInfo that takes the pull-up flag for the state.
GroupInfo_pullUP(entry) ==
    [id |-> entry.id,
     description |-> Coalesce(entry.description, "Group " \o ToString(entry.id)),
     type |-> "group",
     state |-> entry.pullUP = 1]

GroupInfo(entry) ==
    [id |-> entry.id,
     description |-> Coalesce(entry.description, "Group " \o ToString(entry.id)),
     type |-> "group",
     state |-> FALSE]

\* Object.values(family), each entry decoded.
Values(family) == [i \in 1..Len(family) |-> family[i].val]

\* listDevices that runs the loop of the PCA family before the loop of the
\* relays.
listDevices_pcaFirst(data) ==
    [i \in 1..Len(data.PCA) |-> PCAInfo(Values(data.PCA)[i])]
        \o [i \in 1..Len(data.relays) |-> RelayInfo(Values(data.relays)[i])]
        \o [i \in 1..Len(data.PWM) |-> PWMInfo(Values(data.PWM)[i])]
        \o [i \in 1..Len(data.group) |-> GroupInfo(Values(data.group)[i])]

listDevices(data) ==
    [i \in 1..Len(data.relays) |-> RelayInfo(Values(data.relays)[i])]
        \o [i \in 1..Len(data.PCA) |-> PCAInfo(Values(data.PCA)[i])]
        \o [i \in 1..Len(data.PWM) |-> PWMInfo(Values(data.PWM)[i])]
        \o [i \in 1..Len(data.group) |-> GroupInfo(Values(data.group)[i])]

\* listDevices of the older axios client: the same four loops.
listDevices_part001(data) ==
    [i \in 1..Len(data.relays) |-> RelayInfo(Values(data.relays)[i])]
        \o [i \in 1..Len(data.PCA) |-> PCAInfo(Values(data.PCA)[i])]
        \o [i \in 1..Len(data.PWM) |-> PWMInfo(Values(data.PWM)[i])]
        \o [i \in 1..Len(data.group) |-> GroupInfo(Values(data.group)[i])]

\* ------------------------------------------------------------------------
\* MyIOAPI.readSensors
\* ------------------------------------------------------------------------

\* One SensorReading of src/src/api.ts.
Reading(id, sensor, type, x, unit) ==
    [id |-> id,
     description |-> Coalesce(sensor.description, "Sensor " \o ToString(id)),
     type |-> type, value |-> Hundredth(x), unit |-> unit, raw |-> x]

\* SensorEntry with `if (sensor.temp)` in place of `!== undefined`: a field
\* whose value is 0 does not count as present.
SensorEntry_truthy(key, sensor) ==
    LET id == Coalesce(sensor.id, parseInt(key))
        Truthy(x) == x # None /\ x[1] # 0
    IN
    IF Truthy(sensor.temp) THEN
        <<Reading(id, sensor, "temperature", sensor.temp[1], "degC")>>
    ELSE IF Truthy(sensor.hum) THEN
        <<Reading(id, sensor, "humidity", sensor.hum[1], "%")>>
    ELSE IF Truthy(sensor.imp) THEN
        <<Reading(id, sensor, "energy", sensor.imp[1], "kWh")>>
    ELSE IF Truthy(sensor.P) THEN
        <<Reading(id, sensor, "power", sensor.P[1], "kW")>>
    ELSE IF Truthy(sensor.U) THEN
        <<Reading(id, sensor, "voltage", sensor.U[1], "V")>>
    ELSE IF Truthy(sensor.I) THEN
        <<Reading(id, sensor, "current", sensor.I[1], "A")>>
    ELSE <<>>

\* The body of the loop of readSensors: the readings one entry adds.
SensorEntry(key, sensor) ==
    LET id == Coalesce(sensor.id, parseInt(key)) IN
    IF sensor.temp # None THEN
        <<Reading(id, sensor, "temperature", sensor.temp[1], "degC")>>
    ELSE IF sensor.hum # None THEN
        <<Reading(id, sensor, "humidity", sensor.hum[1], "%")>>
    ELSE IF sensor.imp # None THEN
        <<Reading(id, sensor, "energy", sensor.imp[1], "kWh")>>
    ELSE IF sensor.P # None THEN
        <<Reading(id, sensor, "power", sensor.P[1], "kW")>>
    ELSE IF sensor.U # None THEN
        <<Reading(id, sensor, "voltage", sensor.U[1], "V")>>
    ELSE IF sensor.I # None THEN
        <<Reading(id, sensor, "current", sensor.I[1], "A")>>
    ELSE <<>>

RECURSIVE SensorLoop(_)
SensorLoop(entries) ==
    IF entries = <<>> THEN <<>>
    ELSE SensorEntry(Head(entries).key, Head(entries).val) \o SensorLoop(Tail(entries))

\* readSensors that keeps its first result and returns it to later calls.
readSensors_cached(data) ==
    LET done == {i \in 1..Len(log) : log[i].op = "readSensors" /\ ~log[i].pending} IN
    IF done = {} THEN SensorLoop(data.sensors)
    ELSE log[CHOOSE i \in done : \A j \in done : i <= j].result.value

readSensors(data) == SensorLoop(data.sensors)

\* One SensorReading of the older axios client: no raw field.
Reading_part001(id, desc, type, x, unit) ==
    [id |-> id, description |-> desc, type |-> type, value |-> Hundredth(x), unit |-> unit]

SensorEntry_part001(key, sensor) ==
    LET id   == Coalesce(sensor.id, parseInt(key))
        desc == Coalesce(sensor.description, "Sensor " \o ToString(id))
    IN
    IF sensor.temp # None THEN
        <<Reading_part001(id, desc, "temperature", sensor.temp[1], "degC")>>
    ELSE IF sensor.hum # None THEN
        <<Reading_part001(id, desc, "humidity", sensor.hum[1], "%")>>
    ELSE IF sensor.imp # None THEN
        <<Reading_part001(id, desc, "energy", sensor.imp[1], "kWh")>>
    ELSE IF sensor.P # None THEN
        <<Reading_part001(id, desc, "power", sensor.P[1], "kW")>>
    ELSE IF sensor.U # None THEN
        <<Reading_part001(id, desc, "voltage", sensor.U[1], "V")>>
    ELSE IF sensor.I # None THEN
        <<Reading_part001(id, desc, "current", sensor.I[1], "A")>>
    ELSE <<>>

RECURSIVE SensorLoop_part001(_)
SensorLoop_part001(entries) ==
    IF entries = <<>> THEN <<>>
    ELSE SensorEntry_part001(Head(entries).key, Head(entries).val)
            \o SensorLoop_part001(Tail(entries))

readSensors_part001(data) == SensorLoop_part001(data.sensors)

\* ------------------------------------------------------------------------
\* Command encoding: MyIOAPI.sendCommand, pcaSet, pwmSet
\* ------------------------------------------------------------------------

\* JavaScript values that reach a command: a number, NaN or a string.
Num(n) == [t |-> "num", n |-> n, s |-> <<>>]

NaN == [t |-> "nan", n |-> 0, s |-> <<>>]

Str(cs) == [t |-> "str", n |-> 0, s |-> cs]

\* String(v)
String(v) ==
    IF v.t = "num" THEN NumChars(v.n)
    ELSE IF v.t = "nan" THEN <<"N", "a", "N">>
    ELSE v.s

\* The characters encodeURIComponent leaves as they are.
Unreserved ==
    {"A", "B", "C", "D", "E", "F", "G", "H", "I", "J", "K", "L", "M",
     "N", "O", "P", "Q", "R", "S", "T", "U", "V", "W", "X", "Y", "Z",
     "a", "b", "c", "d", "e", "f", "g", "h", "i", "j", "k", "l", "m",
     "n", "o", "p", "q", "r", "s", "t", "u", "v", "w", "x", "y", "z",
     "0", "1", "2", "3", "4", "5", "6", "7", "8", "9",
     "-", "_", ".", "!", "~", "*", "'", "(", ")"}

\* The escapes of the other ASCII characters a command can hold.
Escape(c) ==
    CASE c = " " -> <<"%", "2", "0">>
      [] c = "%" -> <<"%", "2", "5">>
      [] c = "&" -> <<"%", "2", "6">>
      [] c = "+" -> <<"%", "2", "B">>
      [] c = "/" -> <<"%", "2", "F">>
      [] c = "=" -> <<"%", "3", "D">>
      [] c = "?" -> <<"%", "3", "F">>

\* encodeURIComponent that also escapes the asterisk, as a strict RFC 3986
\* encoder does.
RECURSIVE encodeURIComponent_strict(_)
encodeURIComponent_strict(cs) ==
    IF cs = <<>> THEN <<>>
    ELSE (IF Head(cs) = "*" THEN <<"%", "2", "A">>
          ELSE IF Head(cs) \in Unreserved THEN <<Head(cs)>>
          ELSE Escape(Head(cs)))
            \o encodeURIComponent_strict(Tail(cs))

RECURSIVE encodeURIComponent(_)
encodeURIComponent(cs) ==
    IF cs = <<>> THEN <<>>
    ELSE (IF Head(cs) \in Unreserved THEN <<Head(cs)>> ELSE Escape(Head(cs)))
            \o encodeURIComponent(Tail(cs))

\* Object.entries(commands).map(...).join('&'); commands is the list of the
\* entries of the object.
RECURSIVE FormBody(_)
FormBody(commands) ==
    IF commands = <<>> THEN <<>>
    ELSE encodeURIComponent(commands[1].k) \o <<"=">>
            \o encodeURIComponent(String(commands[1].v))
            \o (IF Len(commands) > 1 THEN <<"&">> \o FormBody(Tail(commands)) ELSE <<>>)

\* The request sendCommand posts.
sendCommand(commands) ==
    [method |-> "POST", path |-> "/", body |-> Flat(FormBody(commands))]

\* Math.round, Math.min and Math.max on a value that may be NaN.  A percent
\* is undefined or a decimal number kept as sign, whole part and hundredths.
RoundOf(percent) ==
    IF percent = None THEN NaN ELSE Num(MathRound(TimesHundred(percent[1]), 100))

MathMin(a, x) == IF x.t = "nan" THEN NaN ELSE Num(IF a < x.n THEN a ELSE x.n)

MathMax(a, x) == IF x.t = "nan" THEN NaN ELSE Num(IF a > x.n THEN a ELSE x.n)

\* pcaSet that scales the percent to the raw 0..255 level before clamping.
pcaSet_raw(id, percent) ==
    LET raw == IF percent = None THEN NaN
               ELSE Num(MathRound(TimesHundred(percent[1]) * 255, 10000))
        clamped == MathMax(0, MathMin(100, raw))
    IN
    sendCommand(<<[k |-> <<"P", "C", "A", "*">> \o NumChars(id), v |-> clamped]>>)

pcaSet(id, percent) ==
    LET clamped == MathMax(0, MathMin(100, RoundOf(percent))) IN
    sendCommand(<<[k |-> <<"P", "C", "A", "*">> \o NumChars(id), v |-> clamped]>>)

\* pwmSet that puts the id itself in the key.
pwmSet_noOffset(id, percent) ==
    LET clamped == MathMax(0, MathMin(100, RoundOf(percent))) IN
    sendCommand(<<[k |-> <<"f", "e", "t", "*">> \o NumChars(id), v |-> clamped]>>)

pwmSet(id, percent) ==
    LET offset  == id - 100
        clamped == MathMax(0, MathMin(100, RoundOf(percent)))
    IN
    sendCommand(<<[k |-> <<"f", "e", "t", "*">> \o NumChars(offset), v |-> clamped]>>)

\* pcaSet and pwmSet of the older axios client.
pcaSet_part001(id, percent) ==
    sendCommand(<<[k |-> <<"P", "C", "A", "*">> \o NumChars(id),
                   v |-> MathMax(0, MathMin(100, RoundOf(percent)))]>>)

pwmSet_part001(id, percent) ==
    sendCommand(<<[k |-> <<"f", "e", "t", "*">> \o NumChars(id - 100),
                   v |-> MathMax(0, MathMin(100, RoundOf(percent)))]>>)

\* The text of the value that was sent, in place of the argument.
PercentText_sent(percent) ==
    LET clamped == MathMax(0, MathMin(100, RoundOf(percent))) IN
    IF clamped.t = "nan" THEN "NaN" ELSE ToString(clamped.n)

\* `${percent}` of a percent argument.
PercentText(percent) ==
    IF percent = None THEN "undefined"
    ELSE LET v == percent[1] IN
         (IF v.neg THEN "-" ELSE "") \o ToString(v.whole)
            \o (IF v.cent = 0 THEN ""
                ELSE IF v.cent % 10 = 0 THEN "." \o ToString(v.cent \div 10)
                ELSE "." \o ToString(v.cent \div 10) \o ToString(v.cent % 10))

\* setPWM of the fetch client: [thrown |-> message] when the value is refused,
\* else the request it posts.
setPWM(deviceId, value) ==
    IF value # None /\ (TimesHundred(value[1]) < 0 \/ TimesHundred(value[1]) > 10000)
    THEN [thrown |-> "PWM value must be between 0 and 100"]
    ELSE [method |-> "POST", path |-> "/api/pwm/" \o ToString(deviceId),
          body |-> IF value = None THEN "{}"
                   ELSE "{\"value\":" \o PercentText(value) \o "}"]

\* How far beyond 0..100 the percent arguments reach.
PercentMargin == 50

\* The percent arguments: every quarter from -PercentMargin to
\* 100+PercentMargin, and a missing percent.
Percents ==
    {None} \cup
    {Some([neg |-> FALSE, whole |-> w, cent |-> c]) :
        w \in 0..(100 + PercentMargin - 1), c \in {0, 25, 50, 75}} \cup
    {Some([neg |-> TRUE, whole |-> w, cent |-> c]) :
        w \in 0..(PercentMargin - 1), c \in {25, 50, 75}} \cup
    {Some([neg |-> TRUE, whole |-> w, cent |-> 0]) : w \in 1..PercentMargin} \cup
    {Some([neg |-> FALSE, whole |-> 100 + PercentMargin, cent |-> 0])}

Whole(n) == Some([neg |-> n < 0, whole |-> Abs(n), cent |-> 0])

SamplePercents ==
    {None, Whole(-10), Whole(0), Whole(50), Whole(100), Whole(150),
     Some([neg |-> FALSE, whole |-> 50, cent |-> 50])}

PcaIds == 2001..2128

PwmIds == 101..113

\* Arguments of a set-level call: every id with the sample percents, and the
\* sample ids with every percent.
SetArgs(ids, sampleIds) ==
    (ids \X SamplePercents) \cup (sampleIds \X Percents)

\* ------------------------------------------------------------------------
\* On, off and toggle commands
\* ------------------------------------------------------------------------

relayOn(id) == sendCommand(<<[k |-> <<"r", "_", "O", "N">>, v |-> Num(id)]>>)

relayOff(id) == sendCommand(<<[k |-> <<"r", "_", "O", "F", "F">>, v |-> Num(id)]>>)

relayToggle(id) == sendCommand(<<[k |-> <<"r", "_", "I", "N", "V">>, v |-> Num(id)]>>)

pcaOn(id) == sendCommand(<<[k |-> <<"P", "C", "A", "_", "O", "N">>, v |-> Num(id)]>>)

pcaOff(id) == sendCommand(<<[k |-> <<"P", "C", "A", "_", "O", "F", "F">>, v |-> Num(id)]>>)

pcaToggle(id) == sendCommand(<<[k |-> <<"P", "C", "A", "_", "I", "N", "V">>, v |-> Num(id)]>>)

\* pwmOn that applies the offset pwmSet applies to its key.
pwmOn_offset(id) == sendCommand(<<[k |-> <<"f", "_", "O", "N">>, v |-> Num(id - 100)]>>)

pwmOn(id) == sendCommand(<<[k |-> <<"f", "_", "O", "N">>, v |-> Num(id)]>>)

pwmOff(id) == sendCommand(<<[k |-> <<"f", "_", "O", "F", "F">>, v |-> Num(id)]>>)

pwmToggle(id) == sendCommand(<<[k |-> <<"f", "_", "I", "N", "V">>, v |-> Num(id)]>>)

groupOn(id) == sendCommand(<<[k |-> <<"g", "_", "O", "N">>, v |-> Num(id)]>>)

groupOff(id) == sendCommand(<<[k |-> <<"g", "_", "O", "F", "F">>, v |-> Num(id)]>>)

\* groupToggle that settles the toggle itself from the group's pull-up flag.
groupToggle_resolved(id) == IF controller.pullUP = 1 THEN groupOn(id) ELSE groupOff(id)

groupToggle(id) == sendCommand(<<[k |-> <<"g", "_", "I", "N", "V">>, v |-> Num(id)]>>)

\* The twelve methods of the older axios client, by name.
command_part001(op, id) ==
    CASE op = "relayOn"     -> sendCommand(<<[k |-> <<"r", "_", "O", "N">>, v |-> Num(id)]>>)
      [] op = "relayOff"    -> sendCommand(<<[k |-> <<"r", "_", "O", "F", "F">>, v |-> Num(id)]>>)
      [] op = "relayToggle" -> sendCommand(<<[k |-> <<"r", "_", "I", "N", "V">>, v |-> Num(id)]>>)
      [] op = "pcaOn"       -> sendCommand(<<[k |-> <<"P", "C", "A", "_", "O", "N">>, v |-> Num(id)]>>)
      [] op = "pcaOff"      -> sendCommand(<<[k |-> <<"P", "C", "A", "_", "O", "F", "F">>, v |-> Num(id)]>>)
      [] op = "pcaToggle"   -> sendCommand(<<[k |-> <<"P", "C", "A", "_", "I", "N", "V">>, v |-> Num(id)]>>)
      [] op = "pwmOn"       -> sendCommand(<<[k |-> <<"f", "_", "O", "N">>, v |-> Num(id)]>>)
      [] op = "pwmOff"      -> sendCommand(<<[k |-> <<"f", "_", "O", "F", "F">>, v |-> Num(id)]>>)
      [] op = "pwmToggle"   -> sendCommand(<<[k |-> <<"f", "_", "I", "N", "V">>, v |-> Num(id)]>>)
      [] op = "groupOn"     -> sendCommand(<<[k |-> <<"g", "_", "O", "N">>, v |-> Num(id)]>>)
      [] op = "groupOff"    -> sendCommand(<<[k |-> <<"g", "_", "O", "F", "F">>, v |-> Num(id)]>>)
      [] op = "groupToggle" -> sendCommand(<<[k |-> <<"g", "_", "I", "N", "V">>, v |-> Num(id)]>>)

\* The ids each family is called with: relays 1..100, PCA outputs 2001..2128,
\* PWM outputs 101..113, groups 500..550.
IdsOf(op) ==
    CASE op \in {"relayOn", "relayOff", "relayToggle"} -> 1..100
      [] op \in {"pcaOn", "pcaOff", "pcaToggle"}       -> PcaIds
      [] op \in {"pwmOn", "pwmOff", "pwmToggle"}       -> PwmIds
      [] op \in {"groupOn", "groupOff", "groupToggle"} -> 500..550

\* ------------------------------------------------------------------------
\* Command mappings: JavaScript objects
\* ------------------------------------------------------------------------

\* A key that is a canonical array index ("0", "5", "10"; not "05").
IsIndex(k) ==
    /\ k # <<>>
    /\ \A i \in 1..Len(k) : IsDigit(k[i])
    /\ (Len(k) > 1 => k[1] # "0")
    /\ Len(k) <= 9

\* obj[k] = v on an object kept as its own string keys in creation order:
\* an existing key keeps its place and takes the new value.
Put(obj, k, v) ==
    IF \E i \in 1..Len(obj) : obj[i].k = k
    THEN [i \in 1..Len(obj) |-> IF obj[i].k = k THEN [k |-> k, v |-> v] ELSE obj[i]]
    ELSE Append(obj, [k |-> k, v |-> v])

\* The object a literal or a run of assignments builds.
RECURSIVE ObjectOf(_)
ObjectOf(pairs) ==
    IF pairs = <<>> THEN <<>>
    ELSE LET last == pairs[Len(pairs)] IN
         Put(ObjectOf(SubSeq(pairs, 1, Len(pairs) - 1)), last.k, last.v)

RECURSIVE Ascending(_, _)
Ascending(obj, at) ==
    IF at = {} THEN <<>>
    ELSE LET m == CHOOSE i \in at : \A j \in at : parseInt(obj[i].k) <= parseInt(obj[j].k)
         IN <<obj[m]>> \o Ascending(obj, at \ {m})

\* Object.entries(obj): the index keys in ascending order, then the other
\* keys in creation order.
ObjectEntries(obj) ==
    Ascending(obj, {i \in 1..Len(obj) : IsIndex(obj[i].k)}) \o SelectSeq(obj, LAMBDA e : ~IsIndex(e.k))

MaxPairs == 2

\* The pairs callers put into a mapping.
SamplePairs ==
    {[k |-> <<"r", "_", "O", "N">>, v |-> Num(16)],
     [k |-> <<"r", "_", "O", "N">>, v |-> Num(17)],
     [k |-> <<"P", "C", "A", "_", "O", "F", "F">>, v |-> Num(2001)],
     [k |-> <<"f", "e", "t", "*", "5">>, v |-> Num(50)],
     [k |-> <<"1", "0">>, v |-> Str(<<"0">>)],
     [k |-> <<"5">>, v |-> Num(1)]}

\* The mappings sendCommand is called with, as the pairs in the order the
\* caller wrote them.
Mappings == UNION {[1..n -> SamplePairs] : n \in 0..MaxPairs}

\* ------------------------------------------------------------------------
\* The raw command string of myio_send_command
\* ------------------------------------------------------------------------

\* cs.split(sep), on characters.
RECURSIVE split(_, _)
split(cs, sep) ==
    LET at == {i \in 1..Len(cs) : cs[i] = sep} IN
    IF at = {} THEN <<cs>>
    ELSE LET i == CHOOSE i \in at : \A j \in at : i <= j IN
         <<SubSeq(cs, 1, i - 1)>> \o split(SubSeq(cs, i + 1, Len(cs)), sep)

\* decodeURIComponent(cs): None when it throws URIError, else the decoded
\* characters.  The escapes are those of the ASCII characters of Escape.
RECURSIVE decodeURIComponent(_)
decodeURIComponent(cs) ==
    LET Hex == {"0", "1", "2", "3", "4", "5", "6", "7", "8", "9",
                "A", "B", "C", "D", "E", "F"}
        After(c, rest) == IF rest = None THEN None ELSE Some(<<c>> \o rest[1])
    IN
    IF cs = <<>> THEN Some(<<>>)
    ELSE IF Head(cs) # "%" THEN After(Head(cs), decodeURIComponent(Tail(cs)))
    ELSE IF Len(cs) < 3 \/ cs[2] \notin Hex \/ cs[3] \notin Hex THEN None
    ELSE After(CHOOSE c \in {" ", "%", "&", "+", "/", "=", "?"} : Escape(c) = SubSeq(cs, 1, 3),
               decodeURIComponent(SubSeq(cs, 4, Len(cs))))

\* The loop of myio_send_command without its guard: every part is assigned,
\* a missing value as the text "undefined".
RECURSIVE Parsed_unguarded(_, _)
Parsed_unguarded(parts, parsed) ==
    IF parts = <<>> THEN [error |-> None, parsed |-> parsed]
    ELSE LET kv == split(Head(parts), "=")
             k  == decodeURIComponent(kv[1])
             v  == IF Len(kv) > 1 THEN decodeURIComponent(kv[2])
                   ELSE Some(<<"u", "n", "d", "e", "f", "i", "n", "e", "d">>)
         IN  IF k = None \/ v = None
             THEN [error |-> Some("URI malformed"), parsed |-> parsed]
             ELSE Parsed_unguarded(Tail(parts), Put(parsed, k[1], Str(v[1])))

\* The loop of myio_send_command over the parts of the command string: the
\* object it has built, or the error decodeURIComponent threw.
RECURSIVE Parsed(_, _)
Parsed(parts, parsed) ==
    IF parts = <<>> THEN [error |-> None, parsed |-> parsed]
    ELSE LET kv == split(Head(parts), "=")
             k  == kv[1]
             v  == IF Len(kv) > 1 THEN Some(kv[2]) ELSE None
         IN  IF k # <<>> /\ v # None
             THEN IF decodeURIComponent(k) = None \/ decodeURIComponent(v[1]) = None
                  THEN [error |-> Some("URI malformed"), parsed |-> parsed]
                  ELSE Parsed(Tail(parts),
                              Put(parsed, decodeURIComponent(k)[1],
                                  Str(decodeURIComponent(v[1])[1])))
             ELSE Parsed(Tail(parts), parsed)

\* Most parts of a command string.
MaxParts == 2

\* The parts callers join into a command string: pairs, a repeated key, an
\* index key, a part without "=", an empty key, the empty part, a part with
\* two "=", an empty value, a malformed escape and an escaped "=".
SampleParts ==
    {<<"r", "_", "O", "N", "=", "1", "6">>,
     <<"r", "_", "O", "N", "=", "1", "7">>,
     <<"P", "C", "A", "*", "2", "0", "0", "1", "=", "7", "5">>,
     <<"5", "=", "1">>,
     <<"r", "_", "O", "F", "F">>,
     <<"=", "5">>,
     <<>>,
     <<"a", "=", "b", "=", "c">>,
     <<"k", "=">>,
     <<"%", "=", "1">>,
     <<"x", "%", "3", "D", "y", "=", "1">>}

\* The command strings of up to n parts.
RECURSIVE RawCommands(_)
RawCommands(n) ==
    IF n = 1 THEN SampleParts
    ELSE RawCommands(n - 1) \cup
         {raw \o <<"&">> \o part : raw \in RawCommands(n - 1), part \in SampleParts}

\* ------------------------------------------------------------------------
\* HTTP and the tool handler's results
\* ------------------------------------------------------------------------

\* How the controller answers one request: a response with its status line,
\* or no response at all (status 0, text the code of the transport error).
OK200 == [status |-> 200, text |-> "OK"]

Rejections == {[status |-> 500, text |-> "Internal Server Error"]}

TransportErrors ==
    {[status |-> 0, text |-> "ECONNREFUSED"], [status |-> 0, text |-> "ETIMEDOUT"],
     [status |-> 0, text |-> "ENOTFOUND"]}

Answers == {OK200} \cup Rejections \cup TransportErrors

Is2xx(a) == a.status >= 200 /\ a.status < 300

\* The message of the error the axios instance rejects with.
AxiosError(a, timeout) ==
    CASE a.status # 0          -> "Request failed with status code " \o ToString(a.status)
      [] a.text = "ETIMEDOUT"  -> "timeout of " \o ToString(timeout) \o "ms exceeded"
      [] a.text = "ENOTFOUND"  -> "getaddrinfo ENOTFOUND myio"
      [] OTHER                 -> "connect ECONNREFUSED"

\* The timeout each axios client is created with.
TimeoutOf(build) == IF build = "part001" THEN 5000 ELSE 10000

\* A GET that always asks for the full snapshot.
Get_full(path) == [method |-> "GET", path |-> "/d_sens_out.json", body |-> <<>>]

Get(path) == [method |-> "GET", path |-> path, body |-> <<>>]

Throw(msg) == [kind |-> "throw", message |-> msg]

\* A method that resolved without a value.
Void == [kind |-> "void"]

ok(text) == [isError |-> FALSE, text |-> text]

\* err without the failure flag.
err_untagged(text) == [isError |-> FALSE, text |-> "X " \o text]

err(text) == [isError |-> TRUE, text |-> "X " \o text]

NoReply == [isError |-> FALSE, text |-> ""]

NoCall ==
    [build |-> "", op |-> "", id |-> 0, percent |-> None, commands |-> <<>>, raw |-> <<>>]

CallOf(build, op) == [NoCall EXCEPT !.build = build, !.op = op]

SensorLine(s) ==
    "  * [" \o ToString(s.id) \o "] " \o s.description \o ": "
        \o ToFixed2(s.value) \o " " \o s.unit

\* fmt of myio_list_devices: one line per device.
fmt(d) ==
    "  * [" \o ToString(d.id) \o "] " \o d.description \o " - "
        \o (IF d.state THEN "ON" ELSE "OFF")
        \o (IF "levelPercent" \in DOMAIN d
             THEN " (" \o ToString(d.levelPercent) \o "%)" ELSE "")

byType(devices, t) == SelectSeq(devices, LAMBDA d : d.type = t)

Section(title, ds) ==
    IF Len(ds) > 0
    THEN <<title \o Join([i \in 1..Len(ds) |-> fmt(ds[i])], "\n")>>
    ELSE <<>>

\* The text myio_list_devices renders from the decoded devices.
DevicesText(devices) ==
    IF Len(devices) = 0 THEN "No devices found."
    ELSE "myIO Devices:\n\n" \o
         Join(Section("Relays (1-100):\n", byType(devices, "relay"))
                \o Section("PCA Outputs (2001-2128):\n", byType(devices, "pca"))
                \o Section("PWM Outputs (101-113):\n", byType(devices, "pwm"))
                \o Section("Groups (500-550):\n", byType(devices, "group")),
              "\n\n")

\* ------------------------------------------------------------------------
\* The fetch client and the curl client
\* ------------------------------------------------------------------------

\* The device ids the relay tools are called with.
DeviceIds == {1, 5}

getDeviceStatus(deviceId) == Get("/api/devices/" \o ToString(deviceId))

setRelay(deviceId, state) ==
    [method |-> "POST", path |-> "/api/relay/" \o ToString(deviceId),
     body |-> IF state THEN "{\"state\":true}" ELSE "{\"state\":false}"]

setSwitch(deviceId, state) ==
    [method |-> "POST", path |-> "/api/switch/" \o ToString(deviceId),
     body |-> IF state THEN "{\"state\":true}" ELSE "{\"state\":false}"]

\* What a method of the fetch client throws for an answer that is not ok:
\* fetch rejects without a response, the method throws on !response.ok.
FetchError(a, what) ==
    IF a.status = 0 THEN "fetch failed"
    ELSE "Failed to " \o what \o ": " \o a.text

\* The device documents /api/devices/<id> answers with.
Devices ==
    {[name |-> "Lamp", state |-> s] : s \in {None, Some(TRUE), Some(FALSE)}}

\* device.state taken as the new state, without the negation.
NotState_kept(device) == device.state = Some(TRUE)

\* !device.state
NotState(device) == ~(device.state = Some(TRUE))

\* The result a tool of tools/relay.ts returns from its try block.
Text(text) == [isError |-> FALSE, text |-> text]

\* The catch of a tool of tools/relay.ts.
Caught_relay(doing, message) ==
    [isError |-> TRUE, text |-> "Error " \o doing \o ": " \o message]

OnOff(state) == IF state THEN "ON" ELSE "OFF"

\* The command lines of the curl client, constructed with the defaults of
\* index.ts: http://192.168.1.100 and no credentials.
curlGet(path) ==
    "curl -s -u \":\" --max-time 10 \"http://192.168.1.100" \o path \o "\""

curlPost(body) ==
    "curl -s -u \":\" --max-time 10 -X POST -d \"" \o body
        \o "\" \"http://192.168.1.100/\""

\* execSync throws when curl exits with a status other than 0, which
\* curl -s does only when no response arrived.
ExecError(cmd) == "Command failed: " \o cmd

\* ------------------------------------------------------------------------
\* The instance, the controller and the calls that overlap
\* ------------------------------------------------------------------------

Callers == {1, 2}

\* Most calls that are started in a run.
MaxCalls == 3

\* What the controller holds: the state of relay 1 and the pull-up flag of
\* group 500; sensor 7 meters the load of the relay.
ControllerStates == [relay : {0, 1}, pullUP : {0, 1}]

\* GET /sens_out.json in a state of the controller.
SensOut(c) ==
    [EmptyDoc EXCEPT
        !.sensors = Family(<<[NoFields EXCEPT !.P = Some(c.relay * 1250)]>>)]

\* GET /d_sens_out.json in a state of the controller.
DSensOut(c) ==
    DeviceDoc(<<[id |-> 0, description |-> None, state |-> Some(c.relay)]>>, <<>>, <<>>,
              <<[id |-> 0, description |-> None, pullUP |-> c.pullUP,
                 element0 |-> Some(1)]>>,
              CHOOSE o \in Others : o.sensors = <<>>)

\* The environments the server is started in: a variable is unset, empty
\* or set.
Environments ==
    {[MYIO_BASE_URL |-> None, MYIO_USERNAME |-> None, MYIO_PASSWORD |-> None],
     [MYIO_BASE_URL |-> None, MYIO_USERNAME |-> Some("admin"), MYIO_PASSWORD |-> Some("")],
     [MYIO_BASE_URL |-> Some([text |-> "http://myio.local", slash |-> TRUE]),
      MYIO_USERNAME |-> Some("admin"), MYIO_PASSWORD |-> Some("secret")]}

\* The configuration index.ts passes to the constructor: process.env.X || dflt.
Configuration(env) ==
    [baseUrl  |-> Coalesce(env.MYIO_BASE_URL, [text |-> "http://192.168.1.100", slash |-> FALSE]),
     username |-> Some(Coalesce(env.MYIO_USERNAME, "")),
     password |-> Some(Coalesce(env.MYIO_PASSWORD, ""))]

\* The configurations an instance is constructed from: those of index.ts, and
\* those of a caller of the class that leaves the optional fields out.
Configs ==
    {Configuration(env) : env \in Environments} \cup
    {[baseUrl |-> [text |-> "http://192.168.1.100", slash |-> FALSE],
      username |-> None, password |-> None],
     [baseUrl |-> [text |-> "http://myio.local", slash |-> TRUE],
      username |-> None, password |-> Some("secret")]}

\* A constructor that takes the credentials as they are given.
MyIOAPI_asGiven(config) ==
    [baseURL |-> config.baseUrl.text,
     auth |-> [username |-> Coalesce(config.username, "undefined"),
               password |-> Coalesce(config.password, "undefined")],
     timeout |-> 10000]

\* new MyIOAPI(config): the fields of the axios instance.
MyIOAPI(config) ==
    [baseURL |-> config.baseUrl.text,
     auth |-> [username |-> Coalesce(config.username, ""),
               password |-> Coalesce(config.password, "")],
     timeout |-> 10000]

\* The calls that overlap: the operation and its arguments.
OverlapCalls ==
    {[op |-> "readSensors", id |-> 0], [op |-> "listDevices", id |-> 0],
     [op |-> "groupToggle", id |-> 500], [op |-> "groupToggle", id |-> 501],
     [op |-> "relayOn", id |-> 1]}

\* The on, off and toggle tools: the name of the family and the end of the
\* success text.
Tools ==
    [relayOn  |-> <<"Relay", " turned ON">>, relayOff  |-> <<"Relay", " turned OFF">>,
     relayToggle |-> <<"Relay", " toggled">>,
     pcaOn    |-> <<"PCA", " turned ON">>,   pcaOff    |-> <<"PCA", " turned OFF">>,
     pcaToggle |-> <<"PCA", " toggled">>,
     pwmOn    |-> <<"PWM", " turned ON">>,   pwmOff    |-> <<"PWM", " turned OFF">>,
     pwmToggle |-> <<"PWM", " toggled">>,
     groupOn  |-> <<"Group", " turned ON">>, groupOff  |-> <<"Group", " turned OFF">>,
     groupToggle |-> <<"Group", " toggled">>]

\* A request built from the arguments of the call that was started last on
\* the instance, as if the methods passed them through a field.
Request_shared(op, id) ==
    LET last == IF log # <<>> /\ log[Len(log)].pending /\ log[Len(log)].op = op
                THEN log[Len(log)].id ELSE id
    IN  CASE op = "readSensors" -> Get("/sens_out.json")
          [] op = "listDevices" -> Get("/d_sens_out.json")
          [] op = "groupToggle" -> groupToggle(last)
          [] OTHER              -> relayOn(last)

\* The request a method of src/api.ts builds before it awaits.
Request(op, id) ==
    CASE op = "readSensors" -> Get("/sens_out.json")
      [] op = "listDevices" -> Get("/d_sens_out.json")
      [] op = "relayOn"     -> relayOn(id)
      [] op = "relayOff"    -> relayOff(id)
      [] op = "relayToggle" -> relayToggle(id)
      [] op = "pcaOn"       -> pcaOn(id)
      [] op = "pcaOff"      -> pcaOff(id)
      [] op = "pcaToggle"   -> pcaToggle(id)
      [] op = "pwmOn"       -> pwmOn(id)
      [] op = "pwmOff"      -> pwmOff(id)
      [] op = "pwmToggle"   -> pwmToggle(id)
      [] op = "groupOn"     -> groupOn(id)
      [] op = "groupOff"    -> groupOff(id)
      [] op = "groupToggle" -> groupToggle(id)

\* What the axios instance puts on the wire for a request.
Sending(inst, req) ==
    [url |-> inst.baseURL \o req.path, auth |-> inst.auth,
     method |-> req.method, body |-> req.body]

\* ------------------------------------------------------------------------
\* Operations
\* ------------------------------------------------------------------------

Init ==
    /\ call = NoCall
    /\ snapshot = None
    /\ sent = <<>>
    /\ answered = <<>>
    /\ ret = [kind |-> "none"]
    /\ reply = NoReply
    /\ instance = MyIOAPI(CHOOSE config \in Configs :
                            config.username = None /\ config.password = None)
    /\ controller = CHOOSE c \in ControllerStates : TRUE
    /\ tasks = [c \in Callers |-> 0]
    /\ log = <<>>

\* No operation is in progress: the adapter keeps nothing between calls.
Idle == call = NoCall

\* One caller at a time: nothing is in flight beside the operation.
Alone == UNCHANGED <<instance, controller, tasks, log>>

\* The operation hands its result to the caller; nothing of it is kept.
Return ==
    /\ ~Idle
    /\ Alone
    /\ call' = NoCall
    /\ snapshot' = None
    /\ sent' = <<>>
    /\ answered' = <<>>
    /\ ret' = [kind |-> "none"]
    /\ reply' = NoReply

\* A catch that reports a failure without the error's message.
Caught_lost(message) == err("Request failed")

\* The catch of the tool handler: the error's message becomes the result.
Caught(message) == err(message)

\* One request through the axios instance of sendCommand, awaited; under
\* the tool handler the outcome becomes the success text or the caught error.
Exchange(build, handled, req, text) ==
    /\ snapshot' = None
    /\ sent' = <<req>>
    /\ \E a \in Answers :
        /\ answered' = <<a>>
        /\ IF Is2xx(a)
           THEN /\ ret' = Void
                /\ reply' = IF handled THEN ok(text) ELSE NoReply
           ELSE /\ ret' = Throw(AxiosError(a, TimeoutOf(build)))
                /\ reply' = IF handled
                            THEN Caught(AxiosError(a, TimeoutOf(build)))
                            ELSE NoReply

\* A method of an axios client that awaits sendCommand(...) and returns
\* nothing; the methods of src/api.ts are called by the tool handler.
Command(build, op, id, percent, req, text) ==
    /\ call' = [CallOf(build, op) EXCEPT !.id = id, !.percent = percent]
    /\ Exchange(build, build = "api", req, text)

\* A GET of an axios client that did not end in a 2xx response.
GetFailed(build, handled) ==
    /\ snapshot' = None
    /\ \E a \in Answers \ {OK200} :
        /\ answered' = <<a>>
        /\ ret' = Throw(AxiosError(a, TimeoutOf(build)))
        /\ reply' = IF handled
                    THEN Caught(AxiosError(a, TimeoutOf(build)))
                    ELSE NoReply

\* listDevices() after the snapshot arrived, and under the tool handler
\* (myio_list_devices) the rendering of its result.
Listed(build, data) ==
    /\ snapshot' = Some(data)
    /\ answered' = <<OK200>>
    /\ IF DeviceFamilies \subseteq DOMAIN data
       THEN LET devices == IF build = "api" THEN listDevices(data)
                           ELSE listDevices_part001(data)
            IN  /\ ret' = [kind |-> "devices", value |-> devices]
                /\ reply' = IF build = "api" THEN ok(DevicesText(devices)) ELSE NoReply
       ELSE /\ ret' = Throw(TypeError)
            /\ reply' = IF build = "api" THEN Caught(TypeError) ELSE NoReply

\* Tool myio_list_devices: api.listDevices(), then the rendering.
ListDevices ==
    /\ Idle
    /\ Alone
    /\ call' = CallOf("api", "listDevices")
    /\ sent' = <<Get("/d_sens_out.json")>>
    /\ \/ \E n \in Shapes : \E data \in DeviceSnapshots(n) : Listed("api", data)
       \/ \E data \in DeficientDeviceSnapshots : Listed("api", data)
       \/ GetFailed("api", TRUE)

\* listDevices() of the older axios client.
ListDevices_part001 ==
    /\ Idle
    /\ Alone
    /\ call' = CallOf("part001", "listDevices")
    /\ sent' = <<Get("/d_sens_out.json")>>
    /\ \/ \E n \in Shapes : \E data \in DeviceSnapshots(n) : Listed("part001", data)
       \/ \E data \in DeficientDeviceSnapshots : Listed("part001", data)
       \/ GetFailed("part001", FALSE)

\* Tool myio_read_sensors: api.readSensors(), then the rendering.
ReadSensors ==
    /\ Idle
    /\ Alone
    /\ call' = CallOf("api", "readSensors")
    /\ sent' = <<Get("/sens_out.json")>>
    /\ \/ \E data \in SensorSnapshots \cup {Without(EmptyDoc, "sensors")} :
            /\ snapshot' = Some(data)
            /\ answered' = <<OK200>>
            /\ IF "sensors" \in DOMAIN data
               THEN LET sensors == readSensors(data) IN
                    /\ ret' = [kind |-> "readings", value |-> sensors]
                    /\ reply' = IF Len(sensors) = 0 THEN ok("No sensor data available.")
                                ELSE ok("myIO Sensors:\n\n" \o
                                        Join([i \in 1..Len(sensors) |->
                                                SensorLine(sensors[i])], "\n"))
               ELSE /\ ret' = Throw(TypeError)
                    /\ reply' = Caught(TypeError)
       \/ GetFailed("api", TRUE)

\* readSensors() of the older axios client.
ReadSensors_part001 ==
    /\ Idle
    /\ Alone
    /\ call' = CallOf("part001", "readSensors")
    /\ sent' = <<Get("/sens_out.json")>>
    /\ \/ \E data \in SensorSnapshots \cup {Without(EmptyDoc, "sensors")} :
            /\ snapshot' = Some(data)
            /\ answered' = <<OK200>>
            /\ ret' = IF "sensors" \in DOMAIN data
                      THEN [kind |-> "readings", value |-> readSensors_part001(data)]
                      ELSE Throw(TypeError)
            /\ reply' = NoReply
       \/ GetFailed("part001", FALSE)

\* Tool myio_pca_set: api.pcaSet(id, percent), then the success text.
PcaSet ==
    /\ Idle
    /\ Alone
    /\ \E a \in SetArgs(PcaIds, {2001, 2128}) :
        Command("api", "pcaSet", a[1], a[2], pcaSet(a[1], a[2]),
                "OK PCA #" \o ToString(a[1]) \o " set to " \o PercentText(a[2]) \o "%")

\* Tool myio_pwm_set: api.pwmSet(id, percent), then the success text.
PwmSet ==
    /\ Idle
    /\ Alone
    /\ \E a \in SetArgs(PwmIds, {101, 105, 113}) :
        Command("api", "pwmSet", a[1], a[2], pwmSet(a[1], a[2]),
                "OK PWM #" \o ToString(a[1]) \o " set to " \o PercentText(a[2]) \o "%")

\* pcaSet(id, percent) and pwmSet(id, percent) of the older axios client.
SetLevel_part001 ==
    /\ Idle
    /\ Alone
    /\ \/ \E a \in SetArgs(PcaIds, {2001, 2128}) :
            Command("part001", "pcaSet", a[1], a[2], pcaSet_part001(a[1], a[2]), "")
       \/ \E a \in SetArgs(PwmIds, {101, 105, 113}) :
            Command("part001", "pwmSet", a[1], a[2], pwmSet_part001(a[1], a[2]), "")

\* setPWM(deviceId, value) of the fetch client.
SetPWM ==
    /\ Idle
    /\ Alone
    /\ snapshot' = None
    /\ reply' = NoReply
    /\ \E value \in Percents :
        LET req == setPWM(5, value) IN
        /\ call' = [CallOf("fetch", "setPWM") EXCEPT !.id = 5, !.percent = value]
        /\ IF "thrown" \in DOMAIN req
           THEN /\ sent' = <<>>
                /\ answered' = <<>>
                /\ ret' = Throw(req.thrown)
           ELSE /\ sent' = <<req>>
                /\ \E a \in Answers :
                    /\ answered' = <<a>>
                    /\ IF a.status = 0 THEN ret' = Throw("fetch failed")
                       ELSE IF ~Is2xx(a) THEN ret' = Throw("Failed to set PWM: " \o a.text)
                       ELSE \E success \in BOOLEAN :
                               ret' = [kind |-> "json", success |-> success]

\* Tools myio_relay_on .. myio_group_toggle of index.ts: the method of the
\* same name, then the success text.
OnOffToggle ==
    /\ Idle
    /\ Alone
    /\ \E op \in DOMAIN Tools : \E id \in IdsOf(op) :
        Command("api", op, id, None, Request(op, id),
                "OK " \o Tools[op][1] \o " #" \o ToString(id) \o Tools[op][2])

\* The on, off and toggle methods of the older axios client.
Command_part001 ==
    /\ Idle
    /\ Alone
    /\ \E op \in DOMAIN Tools : \E id \in IdsOf(op) :
        Command("part001", op, id, None, command_part001(op, id), "")

\* sendCommand(commands) of src/api.ts and of the older axios client, called
\* with a mapping of the caller's.
SendCommand ==
    /\ Idle
    /\ Alone
    /\ \E build \in {"api", "part001"} : \E pairs \in Mappings :
        /\ call' = [CallOf(build, "sendCommand") EXCEPT !.commands = pairs]
        /\ Exchange(build, FALSE, sendCommand(ObjectEntries(ObjectOf(pairs))), "")

\* Tool myio_send_command: the command string is parsed into an object,
\* which api.sendCommand posts.
myio_send_command ==
    /\ Idle
    /\ Alone
    /\ \E raw \in RawCommands(MaxParts) :
        LET res == Parsed(split(raw, "&"), <<>>) IN
        /\ call' = [CallOf("api", "myio_send_command") EXCEPT !.raw = raw]
        /\ IF res.error # None
           THEN /\ snapshot' = None
                /\ sent' = <<>>
                /\ answered' = <<>>
                /\ ret' = [kind |-> "none"]
                /\ reply' = Caught(res.error[1])
           ELSE Exchange("api", TRUE, sendCommand(ObjectEntries(res.parsed)),
                         "OK Command sent: " \o Flat(raw))

\* The names the tool handler has a case for.
Catalog ==
    {"myio_list_devices", "myio_read_sensors", "myio_get_status",
     "myio_relay_on", "myio_relay_off", "myio_relay_toggle",
     "myio_pca_on", "myio_pca_off", "myio_pca_toggle", "myio_pca_set",
     "myio_pwm_on", "myio_pwm_off", "myio_pwm_toggle", "myio_pwm_set",
     "myio_group_on", "myio_group_off", "myio_group_toggle", "myio_send_command"}

\* A tool call whose name no case matches: the default branch.
UnknownTool ==
    /\ Idle
    /\ Alone
    /\ \E name \in Catalog \cup {"myio_reboot", "myio_relay_status", "myio_switch_toggle",
                                  "MYIO_LIST_DEVICES", "list_devices"} :
        /\ name \notin Catalog
        /\ call' = CallOf("api", name)
        /\ snapshot' = None
        /\ sent' = <<>>
        /\ answered' = <<>>
        /\ ret' = [kind |-> "none"]
        /\ reply' = err("Unknown tool: " \o name)

\* Tool myio_relay_on of tools/relay.ts; myio_relay_off differs in the
\* state and the texts.
RelaySwitch(tool, state, done, failed, doing) ==
    /\ Idle
    /\ Alone
    /\ snapshot' = None
    /\ \E deviceId \in DeviceIds :
        /\ call' = [CallOf("fetch", tool) EXCEPT !.id = deviceId]
        /\ sent' = <<setRelay(deviceId, state)>>
        /\ \E a \in Answers :
            /\ answered' = <<a>>
            /\ IF Is2xx(a)
               THEN \E success \in BOOLEAN :
                    /\ ret' = [kind |-> "json", success |-> success]
                    /\ reply' = Text(IF success
                                     THEN "Relay " \o ToString(deviceId) \o done
                                     ELSE failed \o ToString(deviceId))
               ELSE /\ ret' = Throw(FetchError(a, "set relay"))
                    /\ reply' = Caught_relay(doing, FetchError(a, "set relay"))

myio_relay_on ==
    RelaySwitch("myio_relay_on", TRUE, " turned ON successfully",
                "Failed to turn on relay ", "turning on relay")

myio_relay_off ==
    RelaySwitch("myio_relay_off", FALSE, " turned OFF successfully",
                "Failed to turn off relay ", "turning off relay")

\* Tool myio_relay_toggle: reads the device, then sets the opposite state.
myio_relay_toggle ==
    /\ Idle
    /\ Alone
    /\ \E deviceId \in DeviceIds :
        /\ call' = [CallOf("fetch", "myio_relay_toggle") EXCEPT !.id = deviceId]
        /\ \/ \E a \in Answers \ {OK200} :
                /\ snapshot' = None
                /\ sent' = <<getDeviceStatus(deviceId)>>
                /\ answered' = <<a>>
                /\ ret' = Throw(FetchError(a, "get device status"))
                /\ reply' = Caught_relay("toggling relay",
                                         FetchError(a, "get device status"))
           \/ \E device \in Devices : \E a \in Answers :
                LET newState == NotState(device) IN
                /\ snapshot' = Some(device)
                /\ sent' = <<getDeviceStatus(deviceId), setRelay(deviceId, newState)>>
                /\ answered' = <<OK200, a>>
                /\ IF Is2xx(a)
                   THEN \E success \in BOOLEAN :
                        /\ ret' = [kind |-> "json", success |-> success]
                        /\ reply' = Text(IF success
                                         THEN "Relay " \o ToString(deviceId)
                                                \o " toggled to " \o OnOff(newState)
                                         ELSE "Failed to toggle relay "
                                                \o ToString(deviceId))
                   ELSE /\ ret' = Throw(FetchError(a, "set relay"))
                        /\ reply' = Caught_relay("toggling relay",
                                                 FetchError(a, "set relay"))

\* Tool myio_relay_status.
myio_relay_status ==
    /\ Idle
    /\ Alone
    /\ \E deviceId \in DeviceIds :
        /\ call' = [CallOf("fetch", "myio_relay_status") EXCEPT !.id = deviceId]
        /\ sent' = <<getDeviceStatus(deviceId)>>
        /\ \/ \E a \in Answers \ {OK200} :
                /\ snapshot' = None
                /\ answered' = <<a>>
                /\ ret' = Throw(FetchError(a, "get device status"))
                /\ reply' = Caught_relay("getting relay status",
                                         FetchError(a, "get device status"))
           \/ \E device \in Devices :
                /\ snapshot' = Some(device)
                /\ answered' = <<OK200>>
                /\ ret' = [kind |-> "device"]
                /\ reply' = Text("Relay " \o ToString(deviceId) \o " (" \o device.name
                                    \o ") is currently "
                                    \o OnOff(device.state = Some(TRUE)))

\* The two snapshots the controller serves, by method and path.
Snapshots ==
    {[op |-> "getStatus", path |-> "/sens_out.json",
      docs |-> {SensOut(c) : c \in ControllerStates}],
     [op |-> "getFullStatus", path |-> "/d_sens_out.json",
      docs |-> {DSensOut(c) : c \in ControllerStates}]}

\* getStatus() and getFullStatus() of src/api.ts: the parsed document is
\* returned as it is.
GetStatus ==
    /\ Idle
    /\ Alone
    /\ \E get \in Snapshots :
        /\ call' = CallOf("api", get.op)
        /\ sent' = <<Get(get.path)>>
        /\ \/ \E data \in get.docs :
                /\ snapshot' = Some(data)
                /\ answered' = <<OK200>>
                /\ ret' = [kind |-> "data"]
                /\ reply' = NoReply
           \/ GetFailed("api", FALSE)

\* getStatus() and getFullStatus() of the curl client: JSON.parse of what
\* curl printed, whatever the status of the response was.
GetStatus_part000 ==
    /\ Idle
    /\ Alone
    /\ reply' = NoReply
    /\ \E get \in Snapshots :
        /\ call' = CallOf("part000", get.op)
        /\ sent' = <<Get(get.path)>>
        /\ \/ \E data \in get.docs :
                /\ snapshot' = Some(data)
                /\ answered' = <<OK200>>
                /\ ret' = [kind |-> "data"]
           \/ \E a \in Rejections : \E body \in {"html", "json"} :
                /\ snapshot' = None
                /\ answered' = <<a>>
                /\ ret' = IF body = "json" THEN [kind |-> "data"]
                          ELSE Throw("Unexpected token < in JSON at position 0")
           \/ \E a \in TransportErrors :
                /\ snapshot' = None
                /\ answered' = <<a>>
                /\ ret' = Throw(ExecError(curlGet(get.path)))

\* sendCommand(commands) of the curl client: what curl printed is dropped.
SendCommand_part000 ==
    /\ Idle
    /\ Alone
    /\ snapshot' = None
    /\ reply' = NoReply
    /\ \E pairs \in Mappings :
        LET req == sendCommand(ObjectEntries(ObjectOf(pairs))) IN
        /\ call' = [CallOf("part000", "sendCommand") EXCEPT !.commands = pairs]
        /\ sent' = <<req>>
        /\ \E a \in Answers :
            /\ answered' = <<a>>
            /\ ret' = IF a.status = 0 THEN Throw(ExecError(curlPost(req.body)))
                      ELSE Void

Next ==
    \/ ListDevices
    \/ ListDevices_part001
    \/ ReadSensors
    \/ ReadSensors_part001
    \/ PcaSet
    \/ PwmSet
    \/ SetLevel_part001
    \/ SetPWM
    \/ OnOffToggle
    \/ Command_part001
    \/ SendCommand
    \/ SendCommand_part000
    \/ myio_send_command
    \/ UnknownTool
    \/ myio_relay_on
    \/ myio_relay_off
    \/ myio_relay_toggle
    \/ myio_relay_status
    \/ GetStatus
    \/ GetStatus_part000
    \/ Return

Spec == Init /\ [][Next]_vars

\* ------------------------------------------------------------------------
\* Overlapping calls on one instance
\* ------------------------------------------------------------------------
\* An async method runs from its call to its await in one step, and from
\* the response to its return in another; steps of other calls on the same
\* instance come in between.  The log keeps every request as it was sent and
\* what came of it.

InitOverlap ==
    /\ call = NoCall
    /\ snapshot = None
    /\ sent = <<>>
    /\ answered = <<>>
    /\ ret = [kind |-> "none"]
    /\ reply = NoReply
    /\ instance \in {MyIOAPI(config) : config \in Configs}
    /\ controller \in ControllerStates
    /\ tasks = [c \in Callers |-> 0]
    /\ log = <<>>

\* A caller calls a method: it runs to its await, the request is on the wire.
Call ==
    /\ Len(log) < MaxCalls
    /\ \E c \in Callers : \E args \in OverlapCalls :
        /\ tasks[c] = 0
        /\ log' = Append(log,
                    [op |-> args.op, id |-> args.id,
                     wire |-> Sending(instance, Request(args.op, args.id)),
                     pending |-> TRUE,
                     served |-> None, result |-> [kind |-> "none"]])
        /\ tasks' = [tasks EXCEPT ![c] = Len(log) + 1]
    /\ UNCHANGED <<instance, controller>>
    /\ UNCHANGED <<call, snapshot, sent, answered, ret, reply>>

\* The response arrives and the method runs from its await to its return.
Resume ==
    /\ \E c \in Callers :
        /\ tasks[c] # 0
        /\ LET e == log[tasks[c]]
               data == IF e.op = "readSensors" THEN SensOut(controller)
                       ELSE DSensOut(controller)
           IN  log' = [log EXCEPT ![tasks[c]] =
                        CASE e.op = "readSensors" ->
                                [e EXCEPT !.pending = FALSE, !.served = Some(data),
                                    !.result = [kind |-> "readings",
                                                value |-> readSensors(data)]]
                          [] e.op = "listDevices" ->
                                [e EXCEPT !.pending = FALSE, !.served = Some(data),
                                    !.result = [kind |-> "devices",
                                                value |-> listDevices(data)]]
                          [] OTHER ->
                                [e EXCEPT !.pending = FALSE, !.result = Void]]
        /\ tasks' = [tasks EXCEPT ![c] = 0]
    /\ UNCHANGED <<instance, controller>>
    /\ UNCHANGED <<call, snapshot, sent, answered, ret, reply>>

\* The controller's outputs and sensors change on their own.
Drift ==
    /\ \E c \in ControllerStates : c # controller /\ controller' = c
    /\ UNCHANGED <<instance, tasks, log>>
    /\ UNCHANGED <<call, snapshot, sent, answered, ret, reply>>

NextOverlap ==
    \/ Call
    \/ Resume
    \/ Drift

SpecOverlap == InitOverlap /\ [][NextOverlap]_vars

\* ------------------------------------------------------------------------
\* Overlapping toggles of the tools variant
\* ------------------------------------------------------------------------
\* myio_relay_toggle and myio_switch_toggle of tools/relay.ts await the GET
\* of the device and then the POST of the opposite state.  The controller
\* holds the state of relay 1 and of switch 5; the log keeps, per call, the
\* tool, the device, the state fetched, the state sent and the requests.

InitToggle ==
    /\ call = NoCall
    /\ snapshot = None
    /\ sent = <<>>
    /\ answered = <<>>
    /\ ret = [kind |-> "none"]
    /\ reply = NoReply
    /\ instance = [baseUrl |-> "http://192.168.1.100"]
    /\ controller \in [DeviceIds -> BOOLEAN]
    /\ tasks = [c \in Callers |-> 0]
    /\ log = <<>>

\* A caller calls a toggle tool: it runs to the await of getDeviceStatus.
ToggleCall ==
    /\ Len(log) < MaxCalls
    /\ \E c \in Callers : \E deviceId \in DeviceIds :
        /\ tasks[c] = 0
        /\ log' = Append(log,
                    [tool |-> IF deviceId = 1 THEN "myio_relay_toggle"
                              ELSE "myio_switch_toggle",
                     id |-> deviceId, stage |-> "get", read |-> None, wrote |-> None,
                     sent |-> <<getDeviceStatus(deviceId)>>, result |-> NoReply])
        /\ tasks' = [tasks EXCEPT ![c] = Len(log) + 1]
    /\ UNCHANGED <<instance, controller>>
    /\ UNCHANGED <<call, snapshot, sent, answered, ret, reply>>

\* The device arrives: the tool negates its state and runs to the await of
\* setRelay or setSwitch.
ToggleRead ==
    /\ \E c \in Callers :
        /\ tasks[c] # 0
        /\ log[tasks[c]].stage = "get"
        /\ LET e        == log[tasks[c]]
               device   == [name |-> "Lamp", state |-> Some(controller[e.id])]
               newState == NotState(device)
           IN  log' = [log EXCEPT ![tasks[c]] =
                        [e EXCEPT !.stage = "post", !.read = device.state,
                                  !.wrote = Some(newState),
                                  !.sent = Append(e.sent,
                                            IF e.tool = "myio_relay_toggle"
                                            THEN setRelay(e.id, newState)
                                            ELSE setSwitch(e.id, newState))]]
    /\ UNCHANGED <<instance, controller, tasks>>
    /\ UNCHANGED <<call, snapshot, sent, answered, ret, reply>>

\* The controller sets the device to the state of the POST and answers
\* success: the tool returns its text.
ToggleWrite ==
    /\ \E c \in Callers :
        /\ tasks[c] # 0
        /\ log[tasks[c]].stage = "post"
        /\ LET e == log[tasks[c]] IN
           /\ controller' = [controller EXCEPT ![e.id] = e.wrote[1]]
           /\ log' = [log EXCEPT ![tasks[c]] =
                        [e EXCEPT !.stage = "done",
                                  !.result = Text((IF e.tool = "myio_relay_toggle"
                                                   THEN "Relay " ELSE "Switch ")
                                                  \o ToString(e.id) \o " toggled to "
                                                  \o OnOff(e.wrote[1]))]]
        /\ tasks' = [tasks EXCEPT ![c] = 0]
    /\ UNCHANGED instance
    /\ UNCHANGED <<call, snapshot, sent, answered, ret, reply>>

NextToggle ==
    \/ ToggleCall
    \/ ToggleRead
    \/ ToggleWrite

SpecToggle == InitToggle /\ [][NextToggle]_vars

\* ------------------------------------------------------------------------
\* Properties
\* ------------------------------------------------------------------------

\* The decoding rules of the sensor family as the specification words them.
FieldOrder == <<"temp", "hum", "imp", "P", "U", "I">>

TypeOfField ==
    [temp |-> "temperature", hum |-> "humidity", imp |-> "energy",
     P |-> "power", U |-> "voltage", I |-> "current"]

UnitOfField ==
    [temp |-> "degC", hum |-> "%", imp |-> "kWh", P |-> "kW", U |-> "V", I |-> "A"]

PresentAt(sensor) == {i \in 1..Len(FieldOrder) : sensor[FieldOrder[i]] # None}

FirstField(sensor) ==
    FieldOrder[CHOOSE i \in PresentAt(sensor) : \A j \in PresentAt(sensor) : i <= j]

HasField(entry) == PresentAt(entry.val) # {}

\* readSensors has returned its readings for the snapshot it fetched.
ReadSensorsDone == call.op = "readSensors" /\ ret.kind = "readings"

Decoded == SelectSeq(snapshot[1].sensors, HasField)

\* C1: every sensor record with at least one of the six fields defined (a
\* value of 0 included) yields exactly one reading, typed and valued by the
\* first defined field in the order temp, hum, imp, P, U, I; the later fields
\* leave no trace.
C1_FirstFieldWins ==
    ReadSensorsDone =>
        /\ Len(ret.value) = Len(Decoded)
        /\ \A i \in 1..Len(Decoded) :
            LET f == FirstField(Decoded[i].val) IN
            /\ ret.value[i].type = TypeOfField[f]
            /\ ret.value[i].unit = UnitOfField[f]
            /\ TimesHundred(ret.value[i].value) = Decoded[i].val[f][1]

\* C1 witness: a record with several fields, the first of them 0, was decoded.
C1_Witness ==
    /\ ReadSensorsDone
    /\ Len(ret.value) = 1
    /\ \E e \in {snapshot[1].sensors[i] : i \in 1..Len(snapshot[1].sensors)} :
        /\ Cardinality(PresentAt(e.val)) >= 2
        /\ e.val[FirstField(e.val)] = Some(0)
        /\ e.val.temp = None

ExactlyOne(entry) == Cardinality(PresentAt(entry.val)) = 1

\* C2: in every build, a record with exactly one of the six fields yields one
\* reading with value = raw/100, the unit of the field and a raw field equal
\* to the integer of the snapshot; a record with none yields no reading.
C2_ValueUnitRaw ==
    (ReadSensorsDone /\ \A i \in 1..Len(snapshot[1].sensors) :
                            Cardinality(PresentAt(snapshot[1].sensors[i].val)) <= 1) =>
        /\ Len(ret.value) = Len(Decoded)
        /\ \A i \in 1..Len(Decoded) :
            LET f == FirstField(Decoded[i].val)
                r == ret.value[i]
            IN
            /\ TimesHundred(r.value) = Decoded[i].val[f][1]
            /\ r.value.cent \in 0..99
            /\ r.unit = UnitOfField[f]
            /\ "raw" \in DOMAIN r
            /\ r.raw = Decoded[i].val[f][1]

\* listDevices has returned its records for the snapshot it fetched.
ListDevicesDone == call.op = "listDevices" /\ ret.kind = "devices"

\* The raw entries of a family of the fetched snapshot.
Raw(family) == {snapshot[1][family][i].val : i \in 1..Len(snapshot[1][family])}

\* The records of the result with the given type and id.
DevicesOf(type, id) ==
    {ret.value[i] : i \in {j \in 1..Len(ret.value) :
                              ret.value[j].type = type /\ ret.value[j].id = id}}

\* Every raw entry of the family has exactly one record, and P holds of both.
Each(family, type, P(_, _)) ==
    \A e \in Raw(family) :
        /\ Cardinality(DevicesOf(type, e.id)) = 1
        /\ \A d \in DevicesOf(type, e.id) : P(e, d)

\* C3: a relay record has state=true iff its raw state is 1 (2 or a missing
\* state give false); a PCA or PWM record has state=true iff its raw state is
\* greater than 0.
C3_StateDecoding ==
    ListDevicesDone =>
        /\ Each("relays", "relay", LAMBDA e, d : d.state <=> (e.state = Some(1)))
        /\ Each("PCA", "pca", LAMBDA e, d : d.state <=> (e.state \in 1..255))
        /\ Each("PWM", "pwm", LAMBDA e, d : d.state <=> (e.state \in 1..255))

\* C3 witness: a relay with raw state 2 decoded to false next to a PCA output
\* with raw state 1 decoded to true.
C3_Witness ==
    /\ ListDevicesDone
    /\ \E e \in Raw("relays") : e.state = Some(2) /\ \E d \in DevicesOf("relay", e.id) : ~d.state
    /\ \E e \in Raw("PCA") : e.state = 1 /\ \E d \in DevicesOf("pca", e.id) : d.state

\* L is the integer nearest to r/255*100.
Nearest(L, r) == 2 * Abs(255 * L - 100 * r) <= 255

\* C4: for every PCA or PWM record with raw state r in 0..255, levelPercent
\* is the integer nearest to r/255*100, within 0..100, with 255 giving 100,
\* 128 giving 50 and 0 giving 0; a record with r = 0 is listed, state false.
C4_LevelPercent ==
    ListDevicesDone =>
        \A fam \in {<<"PCA", "pca">>, <<"PWM", "pwm">>} :
            Each(fam[1], fam[2], LAMBDA e, d :
                /\ Nearest(d.levelPercent, e.state)
                /\ d.levelPercent \in 0..100
                /\ e.state = 255 => d.levelPercent = 100
                /\ e.state = 128 => d.levelPercent = 50
                /\ e.state = 0 => d.levelPercent = 0 /\ ~d.state)

\* C4 witness: a PWM output at raw 128 listed at 50% and a PCA output at
\* raw 0 listed at 0%, off.
C4_Witness ==
    /\ ListDevicesDone
    /\ \E e \in Raw("PWM") :
        e.state = 128 /\ \E d \in DevicesOf("pwm", e.id) : d.levelPercent = 50
    /\ \E e \in Raw("PCA") :
        e.state = 0 /\ \E d \in DevicesOf("pca", e.id) : d.levelPercent = 0 /\ ~d.state

Described(e, d, label) ==
    d.description = IF e.description # None THEN e.description[1]
                    ELSE label \o " " \o ToString(d.id)

\* C6: a record whose raw entry has no description is described as
\* "<TypeName> <id>" (Relay, PCA, PWM, Group, Sensor); a raw description is
\* carried unchanged.
C6_DefaultDescription ==
    /\ ListDevicesDone =>
        /\ Each("relays", "relay", LAMBDA e, d : Described(e, d, "Relay"))
        /\ Each("PCA", "pca", LAMBDA e, d : Described(e, d, "PCA"))
        /\ Each("PWM", "pwm", LAMBDA e, d : Described(e, d, "PWM"))
        /\ Each("group", "group", LAMBDA e, d : Described(e, d, "Group"))
    /\ ReadSensorsDone =>
        /\ Len(ret.value) = Len(Decoded)
        /\ \A i \in 1..Len(Decoded) :
            /\ Described(Decoded[i].val, ret.value[i], "Sensor")
            /\ ret.value[i].id = Coalesce(Decoded[i].val.id, parseInt(Decoded[i].key))

\* C6 witness: relay 7 without a description listed as "Relay 7" after a
\* described relay, or a sensor without description and id decoded.
C6_Witness ==
    \/ /\ ListDevicesDone
       /\ \E e \in Raw("relays") : e.description = None /\ e.id = 7 /\
            \E d \in DevicesOf("relay", 7) : d.description = "Relay 7"
       /\ \E e \in Raw("relays") : e.description # None /\
            \E d \in DevicesOf("relay", e.id) : d.description = "Lamp"
    \/ /\ ReadSensorsDone
       /\ Len(ret.value) = 1
       /\ snapshot[1].sensors[1].val.description = None
       /\ snapshot[1].sensors[1].val.id = None
       /\ ret.value[1].description = "Sensor 1"

\* A set-level operation was called with a number for the percent.
SetLevelOps == {"pcaSet", "pwmSet", "setPWM"}

P100 == TimesHundred(call.percent[1])

\* The integer nearest to the percent of the call, a half going up.
Rounded ==
    CHOOSE r \in {P100 \div 100, (P100 \div 100) + 1} :
        100 * r - 50 <= P100 /\ P100 < 100 * r + 50

\* The percent of the call, rounded and clamped to 0..100.
Normalized == IF Rounded < 0 THEN 0 ELSE IF Rounded > 100 THEN 100 ELSE Rounded

Post(body) == [method |-> "POST", path |-> "/", body |-> body]

\* C7: pwmSet(id, percent) sends one POST with the single pair
\* fet*<id-100>=<percent rounded and clamped>, for every id in 101..113;
\* pwmSet(105, -10) puts fet*5=0 on the wire.
C7_PwmSetKey ==
    (call.op = "pwmSet" /\ call.percent # None) =>
        /\ sent = <<Post("fet*" \o ToString(call.id - 100) \o "=" \o ToString(Normalized))>>
        /\ (call.id = 105 /\ call.percent = Whole(-10)) => sent[1].body = "fet*5=0"

\* C7 witness: pwmSet(105, -10) was sent.
C7_Witness ==
    /\ call.op = "pwmSet"
    /\ call.id = 105
    /\ call.percent = Whole(-10)
    /\ Len(sent) = 1

\* C8: pcaSet(id, percent) sends one POST with the single pair
\* PCA*<id>=<percent rounded and clamped>, the id without offset and the
\* asterisk unescaped, for every id in 2001..2128; pcaSet(2001, 150) puts
\* PCA*2001=100 on the wire.
C8_PcaSetKey ==
    (call.op = "pcaSet" /\ call.percent # None) =>
        /\ sent = <<Post("PCA*" \o ToString(call.id) \o "=" \o ToString(Normalized))>>
        /\ (call.id = 2001 /\ call.percent = Whole(150)) => sent[1].body = "PCA*2001=100"

\* C8 witness: pcaSet(2001, 150) was sent.
C8_Witness ==
    /\ call.op = "pcaSet"
    /\ call.id = 2001
    /\ call.percent = Whole(150)
    /\ Len(sent) = 1

\* The body a set-level operation must send for the percent of the call.
NormalizedBody ==
    CASE call.op = "pcaSet" -> "PCA*" \o ToString(call.id) \o "=" \o ToString(Normalized)
      [] call.op = "pwmSet" -> "fet*" \o ToString(call.id - 100) \o "=" \o ToString(Normalized)
      [] call.op = "setPWM" -> "{\"value\":" \o ToString(Normalized) \o "}"

\* C9: no set-level operation of any build rejects a percent for its value:
\* for every percent, out of range or fractional, it sends one command whose
\* value is the percent rounded and clamped to 0..100.
C9_NeverRejected ==
    (call.op \in SetLevelOps /\ call.percent # None) =>
        /\ Len(sent) = 1
        /\ sent[1].body = NormalizedBody

\* The value on the wire of the set-level call, as a percent argument: a
\* whole number of 0..100, or no number when NaN was sent.
WireValue(prefix) ==
    IF sent[1].body = prefix \o "NaN" THEN None
    ELSE Whole(CHOOSE v \in 0..100 : sent[1].body = prefix \o ToString(v))

\* C10: the normalization is idempotent: pcaSet and pwmSet called with the
\* value they put on the wire send the same request again.
C10_Idempotent ==
    /\ (call.build = "api" /\ call.op = "pcaSet") =>
        pcaSet(call.id, WireValue("PCA*" \o ToString(call.id) \o "=")) = sent[1]
    /\ (call.build = "api" /\ call.op = "pwmSet") =>
        pwmSet(call.id, WireValue("fet*" \o ToString(call.id - 100) \o "=")) = sent[1]
    /\ (call.build = "part001" /\ call.op = "pcaSet") =>
        pcaSet_part001(call.id, WireValue("PCA*" \o ToString(call.id) \o "=")) = sent[1]
    /\ (call.build = "part001" /\ call.op = "pwmSet") =>
        pwmSet_part001(call.id, WireValue("fet*" \o ToString(call.id - 100) \o "=")) = sent[1]

\* C10 witness: a fractional percent above 100 was sent as 100 by pcaSet.
C10_Witness ==
    /\ call.op = "pcaSet"
    /\ call.percent = Some([neg |-> FALSE, whole |-> 100, cent |-> 50])
    /\ sent[1].body = "PCA*" \o ToString(call.id) \o "=100"

\* The key the command vocabulary fixes for each on, off and toggle operation.
Vocabulary ==
    [relayOn |-> "r_ON", relayOff |-> "r_OFF", relayToggle |-> "r_INV",
     pcaOn |-> "PCA_ON", pcaOff |-> "PCA_OFF", pcaToggle |-> "PCA_INV",
     pwmOn |-> "f_ON", pwmOff |-> "f_OFF", pwmToggle |-> "f_INV",
     groupOn |-> "g_ON", groupOff |-> "g_OFF", groupToggle |-> "g_INV"]

\* An on, off or toggle operation of the adapter has sent its request.
OnOffToggleDone == call.build \in {"api", "part001"} /\ call.op \in DOMAIN Vocabulary

\* C11: every on, off and toggle operation sends exactly one key/value pair,
\* the key being the one the vocabulary fixes for the operation and the value
\* the id the caller gave, unmodified (no offset for the PWM family either).
C11_OnOffToggleVocabulary ==
    OnOffToggleDone =>
        sent = <<Post(Vocabulary[call.op] \o "=" \o ToString(call.id))>>

C11_Witness ==
    /\ call.build = "api"
    /\ call.op = "pwmToggle"
    /\ call.id = 105
    /\ sent = <<Post("f_INV=105")>>
    /\ reply = ok("OK PWM #105 toggled")

\* sendCommand has sent the request for the mapping it was given.
SendCommandDone == call.op = "sendCommand" /\ Len(sent) = 1

DistinctKeys(pairs) ==
    \A i, j \in 1..Len(pairs) : pairs[i].k = pairs[j].k => i = j

\* C12: sendCommand writes the pairs of the mapping as key=value joined by
\* "&" in the order the caller inserted them, for every mapping, keys that
\* are digit strings included.
C12_InsertionOrder ==
    (SendCommandDone /\ DistinctKeys(call.commands)) =>
        sent[1].body = Flat(FormBody(call.commands))

\* An operation has run and its result is with the caller.
Done == ~Idle

\* C13: every public operation issues exactly one HTTP request, whether it
\* succeeds or fails: never none, never two, the toggles included.
C13_ExactlyOneRequest == Done => Len(sent) = 1

\* The operation was a tool call, whose result is the handler's reply.
ToolCall ==
    \/ call.build = "api" /\ call.op \notin {"sendCommand", "getStatus", "getFullStatus"}
    \/ call.build = "fetch" /\ call.op # "setPWM"

\* The texts the handlers put before the message of a caught error.
ErrorPrefixes ==
    {"X ", "Error turning on relay: ", "Error turning off relay: ",
     "Error toggling relay: ", "Error getting relay status: "}

CarriesMessage(text, message) == \E p \in ErrorPrefixes : text = p \o message

\* A request of the operation got no response.
TransportFailed == Done /\ \E i \in 1..Len(answered) : answered[i].status = 0

\* C14: when a request fails in transport (connection refused, timeout, name
\* not resolved), the operation ends with a failure that carries the
\* transport error's message, and no request follows the failed one.
C14_TransportFailure ==
    TransportFailed =>
        /\ Len(sent) = Len(answered)
        /\ \A i \in 1..Len(answered) : answered[i].status = 0 => i = Len(sent)
        /\ ret.kind = "throw"
        /\ ret.message # ""
        /\ call.build \in {"api", "part001"} =>
                ret.message = AxiosError(answered[Len(answered)], TimeoutOf(call.build))
        /\ ToolCall => reply.isError /\ CarriesMessage(reply.text, ret.message)

C14_Witness ==
    /\ call.build = "api"
    /\ call.op = "relayOn"
    /\ sent = <<Post("r_ON=16")>>
    /\ answered = <<[status |-> 0, text |-> "ETIMEDOUT"]>>
    /\ reply = [isError |-> TRUE, text |-> "X timeout of 10000ms exceeded"]

\* A request of the operation got a response whose status is not 2xx.
Rejected ==
    Done /\ \E i \in 1..Len(answered) : answered[i].status # 0 /\ ~Is2xx(answered[i])

\* The texts the clients put before the status text in their errors.
StatusPrefixes ==
    {"", "Failed to set relay: ", "Failed to set PWM: ", "Failed to get device status: "}

\* C15: a response with a status that is not 2xx ends the operation with a
\* failure that includes the status text, never with a success, in every
\* client: axios, fetch and curl.
C15_StatusFailure ==
    Rejected =>
        /\ ret.kind = "throw"
        /\ \E p \in StatusPrefixes : ret.message = p \o answered[Len(answered)].text
        /\ ToolCall => reply.isError

\* The operation failed: it threw, or the controller answered success: false.
Failed == Done /\ (ret.kind = "throw" \/ (ret.kind = "json" /\ ~ret.success))

\* C16: every failure reaches the caller of a tool as a result tagged
\* isError with a message, also when the controller reports success: false.
C16_FailureTagged ==
    (Failed /\ ToolCall) => reply.isError /\ reply.text # ""

TypeOfFamily == [relays |-> "relay", PCA |-> "pca", PWM |-> "pwm", group |-> "group"]

\* How many records of the given type a result holds.
CountOfType(devices, type) == Cardinality({i \in 1..Len(devices) : devices[i].type = type})

\* C17: a deficient part of a snapshot never aborts the decode.  listDevices
\* returns the records of every family the snapshot holds, also when another
\* family is missing or an entry lacks fields; readSensors returns a reading
\* for every sensor with one of the six fields and skips the others.
C17_DeficientPartSkipped ==
    /\ (call.op = "listDevices" /\ snapshot # None) =>
            /\ ret.kind = "devices"
            /\ \A f \in DeviceFamilies \cap DOMAIN snapshot[1] :
                    CountOfType(ret.value, TypeOfFamily[f]) = Len(snapshot[1][f])
    /\ (call.op = "readSensors" /\ snapshot # None) =>
            /\ ret.kind = "readings"
            /\ Len(ret.value) =
                    IF "sensors" \in DOMAIN snapshot[1]
                    THEN Len(SelectSeq(snapshot[1].sensors, HasField))
                    ELSE 0

\* The request the specification gives for a call, from its arguments alone.
ExpectedRequest(op, id) ==
    CASE op = "readSensors" -> Get("/sens_out.json")
      [] op = "listDevices" -> Get("/d_sens_out.json")
      [] op = "groupToggle" -> Post("g_INV=" \o ToString(id))
      [] op = "relayOn"     -> Post("r_ON=" \o ToString(id))

\* C18: the instance is immutable and shares nothing between calls.  Through
\* every interleaving of overlapping calls it keeps the base URL and the
\* credentials it was constructed with, every request was sent with them, and
\* the path and body of every request are those of its own call's arguments.
C18_NoSharedState ==
    /\ instance \in {MyIOAPI(config) : config \in Configs}
    /\ \A i \in 1..Len(log) :
        LET expected == ExpectedRequest(log[i].op, log[i].id) IN
        log[i].wire = [url |-> instance.baseURL \o expected.path, auth |-> instance.auth,
                       method |-> expected.method, body |-> expected.body]

\* C18 witness: two toggles of different groups are in flight at once on an
\* instance constructed with credentials.
C18_Witness ==
    /\ Len(log) = 2
    /\ log[1].pending /\ log[2].pending
    /\ log[1].op = "groupToggle" /\ log[1].id = 500
    /\ log[2].op = "groupToggle" /\ log[2].id = 501
    /\ log[2].wire.url = "http://myio.local/"
    /\ log[2].wire.auth = [username |-> "admin", password |-> "secret"]
    /\ log[2].wire.body = "g_INV=501"

\* The calls of the log that decoded a snapshot.
Decodes == {i \in 1..Len(log) : log[i].op \in {"readSensors", "listDevices"} /\ ~log[i].pending}

\* The result of a decode is made of the snapshot served to that call.
FromOwnSnapshot(e) ==
    LET data == e.served[1] IN
    IF e.op = "readSensors"
    THEN LET own == SelectSeq(data.sensors, HasField) IN
         /\ Len(e.result.value) = Len(own)
         /\ \A k \in 1..Len(own) :
                e.result.value[k].raw = own[k].val[FirstField(own[k].val)][1]
    ELSE /\ Len(e.result.value) =
                Len(data.relays) + Len(data.PCA) + Len(data.PWM) + Len(data.group)
         /\ \A k \in 1..Len(data.relays) :
                /\ e.result.value[k].type = "relay"
                /\ e.result.value[k].id = data.relays[k].val.id
                /\ e.result.value[k].state <=> (data.relays[k].val.state = Some(1))

\* C19: decoded records are never cached.  The result of listDevices or
\* readSensors is made of the snapshot fetched in the same call, two calls
\* served the same snapshot return equal results, and no call returns a
\* record of an earlier call's snapshot.
C19_NeverCached ==
    \A i \in Decodes :
        /\ log[i].served # None
        /\ FromOwnSnapshot(log[i])
        /\ \A j \in Decodes :
            (log[j].op = log[i].op /\ log[j].served = log[i].served) =>
                log[j].result = log[i].result

\* C19 witness: readSensors ran twice and the controller served another
\* snapshot the second time.
C19_Witness ==
    /\ Len(log) >= 2
    /\ {1, 2} \subseteq Decodes
    /\ log[1].op = "readSensors" /\ log[2].op = "readSensors"
    /\ log[1].result.value[1].raw = 0
    /\ log[2].result.value[1].raw = 1250

\* C20: groupToggle only emits the toggle command.  Its one request is the
\* POST of the single pair g_INV=<id>, it fetches no snapshot, and the
\* request is the same in every state of the group: never g_ON or g_OFF.
C20_GroupToggleOnly ==
    \A i \in 1..Len(log) :
        log[i].op = "groupToggle" =>
            /\ log[i].wire.method = "POST"
            /\ log[i].wire.url = instance.baseURL \o "/"
            /\ log[i].wire.body = "g_INV=" \o ToString(log[i].id)
            /\ log[i].served = None

\* C20 witness: group 500 was toggled, a snapshot then showed its pull-up
\* flag at 0, and it is toggled again while the flag is 1 and its member on.
C20_Witness ==
    /\ Len(log) = 3
    /\ log[1].op = "groupToggle" /\ log[1].id = 500 /\ ~log[1].pending
    /\ log[2].op = "listDevices" /\ ~log[2].pending
    /\ log[2].served[1].group[1].val.pullUP = 0
    /\ log[3].op = "groupToggle" /\ log[3].id = 500 /\ log[3].pending
    /\ log[3].wire = log[1].wire
    /\ controller = [relay |-> 1, pullUP |-> 1]

\* The type and id of each entry of a family, in the order of the snapshot.
EntriesOf(data, family) ==
    [i \in 1..Len(data[family]) |-> <<TypeOfFamily[family], data[family][i].val.id>>]

\* listDevices was served a snapshot that holds the four device families.
ListDevicesServed ==
    /\ call.op = "listDevices"
    /\ snapshot # None
    /\ DeviceFamilies \subseteq DOMAIN snapshot[1]

Credential(field) == IF field = None THEN "" ELSE field[1]

\* C22: constructing the adapter without a username or a password never
\* fails.  An absent credential, in the environment or in the configuration,
\* becomes the empty string, and every request of every call is sent with the
\* credentials of the instance, empty or not.
C22_AbsentCredentials ==
    /\ \A config \in Configs :
        instance = MyIOAPI(config) =>
            instance.auth = [username |-> Credential(config.username),
                             password |-> Credential(config.password)]
    /\ \A env \in Environments :
        instance = MyIOAPI(Configuration(env)) =>
            instance.auth = [username |-> Credential(env.MYIO_USERNAME),
                             password |-> Credential(env.MYIO_PASSWORD)]
    /\ \A i \in 1..Len(log) :
        /\ log[i].wire.auth = instance.auth
        /\ log[i].wire.auth.username \in {"", "admin"}
        /\ log[i].wire.auth.password \in {"", "secret"}

\* C22 witness: on an instance constructed without credentials a command and
\* a read were issued with empty credentials and both returned.
C22_Witness ==
    /\ instance = MyIOAPI([baseUrl |-> [text |-> "http://192.168.1.100", slash |-> FALSE],
                           username |-> None, password |-> None])
    /\ Len(log) = 2
    /\ log[1].op = "relayOn" /\ log[2].op = "readSensors"
    /\ ~log[1].pending /\ ~log[2].pending
    /\ log[1].wire.auth = [username |-> "", password |-> ""]
    /\ log[2].wire.auth = [username |-> "", password |-> ""]

\* myio_send_command was called with a command string.
SentCommand == call.op = "myio_send_command"

\* A part of the form key=value: one "=", a key, and no character to escape.
IsPair(part) ==
    /\ Cardinality({i \in 1..Len(part) : part[i] = "="}) = 1
    /\ part[1] # "=" /\ part[Len(part)] # "="
    /\ \A i \in 1..Len(part) : part[i] \in Unreserved \cup {"="}

\* C23: myio_send_command batches the operations of its command string into
\* one request.  For a string of n key=value parts joined by "&" it sends one
\* POST whose body carries every one of the n pairs in the order given, also
\* when parts use the same key (r_ON=16&r_ON=17).
C23_Batched ==
    (SentCommand /\ \A i \in 1..Len(split(call.raw, "&")) : IsPair(split(call.raw, "&")[i])) =>
        sent = <<Post(Flat(call.raw))>>

\* A part that has no "=" or whose key is empty.
Skipped(part) == (\A i \in 1..Len(part) : part[i] # "=") \/ part[1] = "="

\* C30: a part of the command string without "=" or with an empty key is not
\* sent and causes no failure.  The call issues the one POST it issues for the
\* other parts alone (an empty body when none remain), and when the
\* controller accepts it the result is the success message with the whole
\* original string.
C30_MalformedPartSkipped ==
    SentCommand =>
        LET rest  == SelectSeq(split(call.raw, "&"), LAMBDA part : ~Skipped(part))
            alone == Parsed(rest, <<>>)
        IN  alone.error = None =>
                /\ sent = <<sendCommand(ObjectEntries(alone.parsed))>>
                /\ rest = <<>> => sent[1].body = ""
                /\ Flat(call.raw) \in {"r_OFF&r_ON=16", "r_ON=16&=5"} => sent[1].body = "r_ON=16"
                /\ reply = IF Is2xx(answered[1])
                           THEN ok("OK Command sent: " \o Flat(call.raw))
                           ELSE Caught(ret.message)

\* C30 witness: "r_OFF&r_ON=16" was sent as r_ON=16 and reported as sent whole.
C30_Witness ==
    /\ SentCommand
    /\ Flat(call.raw) = "r_OFF&r_ON=16"
    /\ sent = <<Post("r_ON=16")>>
    /\ reply = ok("OK Command sent: r_OFF&r_ON=16")

\* The two snapshot endpoints.
SnapshotPaths == {"/sens_out.json", "/d_sens_out.json"}

\* The clients that have the operations of src/api.ts.
SnapshotClients == {"api", "part001", "part000"}

\* The operations that send a command.
CommandOps == DOMAIN Vocabulary \cup {"pcaSet", "pwmSet", "sendCommand", "myio_send_command"}

\* C24: each operation uses one fixed endpoint.  listDevices fetches only
\* GET /d_sens_out.json, readSensors and getStatus (myio_get_status) fetch
\* only GET /sens_out.json, every command operation sends only POST /, and no
\* operation fetches both snapshots or a snapshot before it sends a command.
C24_FixedEndpoint ==
    /\ (call.build \in SnapshotClients /\ call.op = "listDevices") =>
            sent = <<Get("/d_sens_out.json")>>
    /\ (call.build \in SnapshotClients /\ call.op \in {"readSensors", "getStatus"}) =>
            sent = <<Get("/sens_out.json")>>
    /\ (call.build \in SnapshotClients /\ call.op \in CommandOps) =>
            \A i \in 1..Len(sent) : sent[i].method = "POST" /\ sent[i].path = "/"
    /\ \A i \in 1..Len(sent) :
            (sent[i].method = "GET" /\ sent[i].path \in SnapshotPaths) =>
                \A j \in 1..Len(sent) :
                    /\ sent[j].method = "GET" => sent[j].path = sent[i].path
                    /\ sent[j].method = "POST" => j < i

\* C24 witness: readSensors decoded a reading after its one GET of the brief
\* snapshot.
C24_Witness ==
    /\ call.build = "api"
    /\ call.op = "readSensors"
    /\ sent = <<[method |-> "GET", path |-> "/sens_out.json", body |-> <<>>]>>
    /\ ret.kind = "readings"
    /\ Len(ret.value) = 2

\* The methods of src/api.ts the operations of the model call by name.
ApiMethods ==
    CommandOps \cup {"listDevices", "readSensors", "getStatus", "getFullStatus"}

\* The tool handler was called with a name that is not in its catalog.
UnknownToolCalled ==
    call.build = "api" /\ call.op \notin ApiMethods \cup Catalog \cup {""}

\* C25: a tool call whose name is not in the catalog returns a failure
\* result, tagged isError and naming the unknown tool, and issues no request.
C25_UnknownTool ==
    UnknownToolCalled =>
        /\ reply.isError
        /\ reply.text = "X Unknown tool: " \o call.op
        /\ sent = <<>>
        /\ answered = <<>>

\* C25 witness: myio_relay_status, a tool of the tools variant only, was
\* called on the handler of index.ts.
C25_Witness ==
    /\ call = [NoCall EXCEPT !.build = "api", !.op = "myio_relay_status"]
    /\ reply.text = "X Unknown tool: myio_relay_status"
    /\ sent = <<>>

\* The toggles of the log that have fetched the device.
Fetched == {i \in 1..Len(log) : log[i].stage \in {"post", "done"}}

\* The toggles of one device.
TogglesOf(deviceId) == {i \in 1..Len(log) : log[i].id = deviceId}

\* C26: a toggle of the tools variant is a read followed by a write.  Each
\* toggle sends the negation of the state it fetched; two toggles of one
\* device that have both fetched before any write send the same state; and
\* when they are the only toggles of the device and fetched the same state,
\* the device ends at the negation of that state: flipped once, not twice.
C26_ToggleRace ==
    /\ \A i \in Fetched :
        /\ log[i].wrote = Some(log[i].read # Some(TRUE))
        /\ Len(log[i].sent) = 2
        /\ log[i].sent[1] = [method |-> "GET", body |-> <<>>,
                             path |-> "/api/devices/" \o ToString(log[i].id)]
        /\ log[i].sent[2].method = "POST"
        /\ log[i].sent[2].body =
                IF log[i].read = Some(TRUE) THEN "{\"state\":false}" ELSE "{\"state\":true}"
    /\ \A i, j \in Fetched :
        (/\ i # j /\ log[i].id = log[j].id
         /\ \A k \in TogglesOf(log[i].id) : log[k].stage # "done") =>
            /\ log[i].read = log[j].read
            /\ log[i].sent[2].body = log[j].sent[2].body
    /\ \A i, j \in 1..Len(log) :
        (/\ i < j
         /\ log[i].stage = "done" /\ log[j].stage = "done"
         /\ TogglesOf(log[i].id) = {i, j}
         /\ log[i].read = log[j].read) =>
            /\ log[i].sent[2] = log[j].sent[2]
            /\ controller[log[i].id] = (log[i].read # Some(TRUE))

\* C26 witness: two toggles of relay 1 both fetched it off, both sent on, and
\* the relay is on after both returned.
C26_Witness ==
    /\ Len(log) = 2
    /\ log[1].tool = "myio_relay_toggle" /\ log[2].tool = "myio_relay_toggle"
    /\ log[1].stage = "done" /\ log[2].stage = "done"
    /\ log[1].read = Some(FALSE) /\ log[2].read = Some(FALSE)
    /\ log[1].sent[2] = log[2].sent[2]
    /\ log[2].result.text = "Relay 1 toggled to ON"
    /\ controller[1] = TRUE

\* A set-level tool of index.ts has sent its POST.
SetLevelSent == call.build = "api" /\ call.op \in {"pcaSet", "pwmSet"} /\ Len(sent) = 1

\* The key of the pair a set-level tool sends, with the "=".
SetLevelKey ==
    IF call.op = "pcaSet" THEN "PCA*" \o ToString(call.id) \o "="
    ELSE "fet*" \o ToString(call.id - 100) \o "="

\* C27: every POST of myio_pca_set and myio_pwm_set carries an integer of
\* 0..100 as its value, for every percent the handler can receive, an absent
\* one included.
C27_ValueInRange ==
    SetLevelSent =>
        \E v \in 0..100 : sent[1].body = SetLevelKey \o ToString(v)

\* The text that follows the id in the success message.
SetLevelText ==
    "OK " \o (IF call.op = "pcaSet" THEN "PCA" ELSE "PWM") \o " #" \o ToString(call.id)
        \o " set to "

\* C28: the success text of myio_pca_set and myio_pwm_set reports the percent
\* of the caller unchanged, not the value sent.  Whenever the percent is
\* outside 0..100 or fractional, the percent of the message differs from the
\* rounded, clamped value on the wire; a whole percent of 0..100 is reported
\* and sent alike.
C28_TextReportsArgument ==
    (SetLevelSent /\ call.percent # None /\ Is2xx(answered[1])) =>
        /\ sent[1].body = SetLevelKey \o ToString(Normalized)
        /\ reply.text = SetLevelText \o PercentText(call.percent) \o "%"
        /\ (reply.text = SetLevelText \o ToString(Normalized) \o "%")
                <=> (P100 % 100 = 0 /\ P100 >= 0 /\ P100 <= 10000)
        /\ call.percent = Whole(150) => reply.text = SetLevelText \o "150%"
        /\ call.percent = Some([neg |-> FALSE, whole |-> 50, cent |-> 50]) =>
                reply.text = SetLevelText \o "50.5%"

\* C28 witness: myio_pca_set(2001, 150) answered "set to 150%" after sending 100.
C28_Witness ==
    /\ SetLevelSent
    /\ call.id = 2001
    /\ call.percent = Whole(150)
    /\ sent[1].body = "PCA*2001=100"
    /\ reply = ok("OK PCA #2001 set to 150%")

\* C29: for a PCA or PWM record, state and levelPercent agree in one
\* direction only.  state=false implies levelPercent=0 for every raw state of
\* 0..255, but raw state 1 decodes to state=true with levelPercent=0, which
\* myio_list_devices renders as ON (0%).
C29_StateAndLevel ==
    ListDevicesDone =>
        /\ \A fam \in {<<"PCA", "pca">>, <<"PWM", "pwm">>} :
            Each(fam[1], fam[2], LAMBDA e, d :
                /\ ~d.state => d.levelPercent = 0
                /\ e.state = 1 => d.state /\ d.levelPercent = 0
                /\ (d.state /\ d.levelPercent = 0) => e.state = 1)
        /\ (/\ call.build = "api"
            /\ Len(ret.value) = 1
            /\ Values(snapshot[1].PCA) = <<[id |-> 2001, description |-> None, state |-> 1]>>) =>
                reply = ok("myIO Devices:\n\nPCA Outputs (2001-2128):\n"
                            \o "  * [2001] PCA 2001 - ON (0%)")

\* C29 witness: a lone PCA output at raw state 1 was listed as ON (0%).
C29_Witness ==
    /\ ListDevicesDone
    /\ call.build = "api"
    /\ Len(ret.value) = 1
    /\ ret.value[1].type = "pca" /\ ret.value[1].state /\ ret.value[1].levelPercent = 0
    /\ snapshot[1].PCA[1].val.state = 1
    /\ reply.text = "myIO Devices:\n\nPCA Outputs (2001-2128):\n  * [2001] PCA 2001 - ON (0%)"

====
